---- MODULE Spec2Model ----
(***************************************************************************)
(* layer-shika: a layer-shell window hosting a Slint UI.                   *)
(*                                                                         *)
(* The model follows WindowingSystem (windowing/mod.rs), its Surface State *)
(* (windowing/state.rs), the protocol event handlers                       *)
(* (windowing/event_handler.rs), the render adapter                        *)
(* (rendering/femtovg_window.rs) and the event loop                        *)
(* (windowing/event_loop.rs).                                              *)
(*                                                                         *)
(* The compositor, the EGL driver and the UI framework are the             *)
(* environment: the events they send, the results they return and the      *)
(* redraw requests the UI framework makes from inside a call are inputs    *)
(* drawn from small sets.  f32 values (scale factor, logical positions and *)
(* sizes) are modelled as exact reduced fractions <<n, d>>.                *)
(***************************************************************************)
EXTENDS Integers, Sequences, FiniteSets, TLC

VARIABLES
    pc,        \* where WindowingSystem is: build, wait, configured, constructed, poll, dispatch, failed, stopped
    registry,  \* the globals the compositor advertises
    config,    \* WindowConfig
    state,     \* WindowState
    window,    \* FemtoVGWindow (the render adapter)
    egl,       \* the rendering context: how many were created
    last,      \* the operation that ran last, with its arguments
    reqs,      \* the protocol requests the last operation issued, in order
    ui,        \* the events the last operation forwarded to the UI framework, in order
    rendered,  \* render passes / buffer swaps the last operation performed
    hist,      \* history: what has happened so far
    system     \* the WindowingSystem value construction returned, if it did

vars == <<pc, registry, config, state, window, egl, last, reqs, ui, rendered, hist,
          system>>

----------------------------------------------------------------------------
(* Bounds of the model *)

MaxSerial == 2
Serials == 1..MaxSerial

\* (width, height) a Configure event may propose
ConfigureSizes == {<<0, 0>>, <<300, 0>>, <<300, 30>>, <<200, 50>>}
\* (width, height) the output may report in a Mode event
ModeSizes == {<<1, 1>>, <<300, 200>>, <<400, 300>>}
\* physical (x, y) positions of the pointer
PointerPositions == {<<100, 50>>, <<30, 75>>}
\* configured scale factors, as fractions
ScaleFactors == {<<1, 1>>, <<2, 1>>}
\* wl_pointer button codes (BTN_LEFT, BTN_RIGHT) and button states
\* (0 released, 1 pressed, 2 a value the protocol does not define)
Buttons == {272, 273}
ButtonStates == {0, 1, 2}

----------------------------------------------------------------------------
(* Values *)

DefaultHeight == 30
DefaultExclusiveZone == -1
DefaultScaleFactor == <<1, 1>>

RequiredGlobals == {"WlCompositor", "WlOutput", "ZwlrLayerShellV1", "WlSeat"}

\* the order in which bind_globals binds them
GlobalOrder == <<"WlCompositor", "WlOutput", "ZwlrLayerShellV1", "WlSeat">>

\* what can fail in WindowingSystem::new around the binding: the connection,
\* the registry round trip, the creation of the event loop
BuildFailures == {"none", "ConnectError", "RegistryInit", "EventLoopCreation"}

PhysicalSize(w, h) == [width |-> w, height |-> h]

RECURSIVE GCD(_, _)
GCD(a, b) == IF b = 0 THEN a ELSE GCD(b, a % b)

\* the fraction n/d, reduced
Rat(n, d) ==
    LET g == GCD(n, d)
    IN  IF g = 0 THEN <<0, 1>> ELSE <<n \div g, d \div g>>

\* f32 division  a / b
RatDiv(a, b) == Rat(a[1] * b[2], a[2] * b[1])

\* f32 multiplication  a * b
RatMul(a, b) == Rat(a[1] * b[1], a[2] * b[2])

\* a non-negative f32 rounded and cast to u32
Round(a) == (2 * a[1] + a[2]) \div (2 * a[2])

\* slint::WindowSize: a physical size in whole pixels, or a logical size;
\* both hold their width and height as fractions
WindowSize_Physical(size) ==
    [kind |-> "Physical", width |-> <<size.width, 1>>, height |-> <<size.height, 1>>]

WindowSize_Logical(width, height) ==
    [kind |-> "Logical", width |-> width, height |-> height]

\* a conversion that takes a logical size for a physical one
to_physical_unscaled(size, scale_factor) ==
    PhysicalSize(Round(size.width), Round(size.height))

\* WindowSize::to_physical: a physical size as it is, a logical size
\* multiplied by the scale factor
to_physical(size, scale_factor) ==
    IF size.kind = "Physical"
    THEN PhysicalSize(size.width[1], size.height[1])
    ELSE PhysicalSize(Round(RatMul(size.width, scale_factor)),
                      Round(RatMul(size.height, scale_factor)))

\* WindowSize::to_logical: a logical size as it is, a physical size divided
\* by the scale factor
to_logical(size, scale_factor) ==
    IF size.kind = "Logical"
    THEN [width |-> size.width, height |-> size.height]
    ELSE [width  |-> RatDiv(size.width, scale_factor),
          height |-> RatDiv(size.height, scale_factor)]

LogicalPosition(x, y) == [x |-> x, y |-> y]

Req(name, a, b) == <<name, a, b>>

UiEvent(type, x, y, button) == [type |-> type, x |-> x, y |-> y, button |-> button]

----------------------------------------------------------------------------
(* WindowConfig and WindowState *)

WindowConfig_default ==
    [ height               |-> DefaultHeight,
      layer                |-> "Top",
      margin               |-> <<0, 0, 0, 0>>,
      anchor               |-> {"Top", "Left", "Right"},
      keyboard_interactivity |-> "OnDemand",
      exclusive_zone       |-> DefaultExclusiveZone,
      namespace            |-> "layer-shika",
      scale_factor         |-> DefaultScaleFactor,
      component_definition |-> FALSE ]

Configs ==
    { [WindowConfig_default EXCEPT !.scale_factor = s, !.component_definition = c] :
          s \in ScaleFactors, c \in BOOLEAN }

\* the values the setters are called with
Heights == {30, 48}
Layers == {"Top", "Overlay"}
Margins == {<<0, 0, 0, 0>>, <<4, 8, 0, 8>>}
Anchors == {{"Top", "Left", "Right"}, {"Bottom"}}
KeyboardInteractivities == {"OnDemand", "None"}
ExclusiveZones == {-1, 48}
Namespaces == {"layer-shika", "panel"}

\* a with_exclusive_zone that sets the height too
with_exclusive_zone_and_height(cfg, zone) ==
    [cfg EXCEPT !.exclusive_zone = zone, !.height = zone]

with_height(cfg, height) == [cfg EXCEPT !.height = height]
with_layer(cfg, layer) == [cfg EXCEPT !.layer = layer]
with_margin(cfg, top, right, bottom, left) ==
    [cfg EXCEPT !.margin = <<top, right, bottom, left>>]
with_anchor(cfg, anchor) == [cfg EXCEPT !.anchor = anchor]
with_keyboard_interactivity(cfg, interactivity) ==
    [cfg EXCEPT !.keyboard_interactivity = interactivity]
with_exclusive_zone(cfg, zone) == [cfg EXCEPT !.exclusive_zone = zone]
with_namespace(cfg, namespace) == [cfg EXCEPT !.namespace = namespace]
with_scale_factor(cfg, scale_factor) == [cfg EXCEPT !.scale_factor = scale_factor]
with_component_definition(cfg) == [cfg EXCEPT !.component_definition = TRUE]

WindowState_new(cfg) ==
    [ surface        |-> FALSE,
      layer_surface  |-> FALSE,
      size           |-> PhysicalSize(0, 0),
      output_size    |-> PhysicalSize(0, 0),
      pointer        |-> FALSE,
      window         |-> FALSE,
      current_pointer_position |-> LogicalPosition(<<0, 1>>, <<0, 1>>),
      scale_factor   |-> cfg.scale_factor,
      height         |-> cfg.height,
      exclusive_zone |-> cfg.exclusive_zone ]

\* u32 values are held as their 32 bits, which the model's integers read as
\* signed: a value below 0 stands for the unsigned value 2^32 + value, that
\* is, for a u32 of 2^31 or more.
\* `x as u32` on an i32 keeps the 32 bits
as_u32(x) == x

\* a > b on u32 values, for b not negative
u32_gt(a, b) == a < 0 \/ a > b

\* a setter that takes the output's size for the surface's size too
set_output_size_resizes(st, width, height) ==
    [st EXCEPT !.output_size = PhysicalSize(width, height),
               !.size = PhysicalSize(width, height)]

set_output_size(st, width, height) ==
    [st EXCEPT !.output_size = PhysicalSize(width, height)]

\* a position stored without dividing by the scale factor
set_current_pointer_position_unscaled(st, physical_x, physical_y) ==
    [st EXCEPT !.current_pointer_position =
        LogicalPosition(<<physical_x, 1>>, <<physical_y, 1>>)]

set_current_pointer_position(st, physical_x, physical_y) ==
    [st EXCEPT !.current_pointer_position =
        LogicalPosition(RatDiv(<<physical_x, 1>>, st.scale_factor),
                        RatDiv(<<physical_y, 1>>, st.scale_factor))]

----------------------------------------------------------------------------
(* FemtoVGWindow, the render adapter *)

NoWindow ==
    [ exists |-> FALSE, is_dirty |-> FALSE,
      size |-> PhysicalSize(0, 0), scale_factor |-> <<1, 1>> ]

FemtoVGWindow_new == [NoWindow EXCEPT !.exists = TRUE]

request_redraw(w) == [w EXCEPT !.is_dirty = TRUE]

\* the UI framework may answer an event it is sent by requesting a redraw
dispatch_event(w, redraw) == IF redraw THEN request_redraw(w) ELSE w

\* a set_size that takes every size for a logical one
set_size_scaled(w, size) ==
    [w EXCEPT !.size = PhysicalSize(Round(RatMul(size.width, w.scale_factor)),
                                    Round(RatMul(size.height, w.scale_factor)))]

\* set_size: the size is stored in physical pixels under the adapter's
\* scale factor, and a Resized event carries it in logical pixels
set_size(w, size) == [w EXCEPT !.size = to_physical(size, w.scale_factor)]

Resized(w, size) ==
    UiEvent("Resized", to_logical(size, w.scale_factor).width,
                       to_logical(size, w.scale_factor).height, "none")

set_scale_factor(w, scale_factor) == [w EXCEPT !.scale_factor = scale_factor]

ScaleFactorChanged(scale_factor) ==
    UiEvent("ScaleFactorChanged", scale_factor, <<0, 1>>, "none")

\* a render pass that leaves the flag set
render_frame_if_dirty_keeps_flag(w, in_pass) ==
    IF w.is_dirty
    THEN [window |-> w, passes |-> 1]
    ELSE [window |-> w, passes |-> 0]

\* if is_dirty.get() { render(); is_dirty.set(false) }: one render pass
\* when the flag is set, and the flag is cleared after it; in_pass: the UI
\* framework calls request_redraw from inside the render pass
render_frame_if_dirty(w, in_pass) ==
    IF w.is_dirty
    THEN [window |-> [dispatch_event(w, in_pass) EXCEPT !.is_dirty = FALSE],
          passes |-> 1]
    ELSE [window |-> w, passes |-> 0]

Rendered(passes, ok) == [passes |-> passes, swaps |-> IF ok THEN passes ELSE 0]

NoRender == Rendered(0, TRUE)

----------------------------------------------------------------------------
(* WindowState::update_size *)

\* an update that leaves the commit to a later one
update_size_uncommitted(st, w, width, height, redraw) ==
    LET new_size == PhysicalSize(width, height)
    IN  [ state  |-> [st EXCEPT !.size = new_size],
          window |-> IF st.window
                     THEN dispatch_event(
                              set_scale_factor(set_size(w, WindowSize_Physical(new_size)),
                                               st.scale_factor),
                              redraw)
                     ELSE w,
          reqs   |-> IF st.layer_surface
                     THEN <<Req("set_size", width, height),
                            Req("set_exclusive_zone", st.exclusive_zone, 0)>>
                     ELSE <<>>,
          ui     |-> IF st.window
                     THEN <<Resized(w, WindowSize_Physical(new_size)),
                            ScaleFactorChanged(st.scale_factor)>>
                     ELSE <<>> ]

update_size(st, w, width, height, redraw) ==
    LET new_size == PhysicalSize(width, height)
        w1 == IF st.window
              THEN dispatch_event(
                       set_scale_factor(set_size(w, WindowSize_Physical(new_size)),
                                        st.scale_factor),
                       redraw)
              ELSE w
        ev == IF st.window
              THEN <<Resized(w, WindowSize_Physical(new_size)),
                     ScaleFactorChanged(st.scale_factor)>>
              ELSE <<>>
        r1 == IF st.layer_surface
              THEN <<Req("set_size", width, height),
                     Req("set_exclusive_zone", st.exclusive_zone, 0)>>
              ELSE <<>>
        r2 == IF st.surface THEN <<Req("commit", 0, 0)>> ELSE <<>>
    IN  [ state  |-> [st EXCEPT !.size = new_size],
          window |-> w1,
          reqs   |-> r1 \o r2,
          ui     |-> ev ]

----------------------------------------------------------------------------
(* History *)

NoHist ==
    [ configured |-> FALSE,   \* a Configure event has been handled
      closed     |-> FALSE,   \* a Closed event has been handled
      requested  |-> FALSE,   \* request_redraw was called since the last render_frame_if_dirty
      cfg        |-> <<0, 0>>, \* (width, height) proposed by the last Configure event
      stale      |-> FALSE,   \* a Mode event was handled after the last Configure event
      timer      |-> FALSE,   \* the UI framework holds a timer or animation deadline
      in_pass    |-> FALSE ]  \* request_redraw was called from inside the last render pass

\* no WindowingSystem value: construction has not returned, or returned Err
NoSystem ==
    [ returned           |-> FALSE,
      window             |-> FALSE,   \* window is Some
      component_instance |-> FALSE,   \* component_instance is Some
      event_loop_handler |-> FALSE,   \* event_loop_handler is Some
      event_source       |-> FALSE ]  \* the connection is a source of the event loop

\* the last operation, its arguments, and the error it returned
Failed(op, a, b, c, err) == [op |-> op, a |-> a, b |-> b, c |-> c, err |-> err]

Op(op, a, b, c) == Failed(op, a, b, c, "none")

----------------------------------------------------------------------------
(* Initial state: a builder with its configuration, nothing connected yet *)

Init ==
    /\ pc = "build"
    /\ registry \in SUBSET RequiredGlobals
    /\ config \in Configs
    /\ state = WindowState_new(config)
    /\ window = NoWindow
    /\ egl = [created |-> 0]
    /\ last = Op("none", 0, 0, 0)
    /\ reqs = <<>>
    /\ ui = <<>>
    /\ rendered = NoRender
    /\ hist = NoHist
    /\ system = NoSystem

----------------------------------------------------------------------------
(* WindowingSystemBuilder::build and WindowingSystem::new, up to the wait *)

configure_layer_surface(cfg) ==
    << Req("set_anchor", 0, 0),
       Req("set_margin", 0, 0),
       Req("set_exclusive_zone", cfg.exclusive_zone, 0),
       Req("set_keyboard_interactivity", 0, 0),
       Req("set_size", 1, cfg.height),
       Req("commit", 0, 0) >>

\* a binder that goes on with the surface factory alone
bind_globals_degraded(reg) ==
    IF "WlCompositor" \in reg
    THEN [ok |-> TRUE, handles |-> reg \cap RequiredGlobals, error |-> "none"]
    ELSE [ok |-> FALSE, handles |-> {}, error |-> "WaylandDispatch"]

\* the bind_globals! macro: the globals are bound in order, the first bind
\* that fails returns its error, and the tuple is built when all succeeded
bind_globals(reg) ==
    IF \A i \in 1..Len(GlobalOrder) : GlobalOrder[i] \in reg
    THEN [ok |-> TRUE, handles |-> RequiredGlobals, error |-> "none"]
    ELSE [ok |-> FALSE, handles |-> {}, error |-> "WaylandDispatch"]

setup_surface(st) ==
    [st EXCEPT !.surface = TRUE, !.layer_surface = TRUE, !.pointer = TRUE]

\* a build that connects before it looks at the component definition
build_error_connects_first(cfg, reg, env) ==
    IF env \in {"ConnectError", "RegistryInit"} THEN env
    ELSE IF ~cfg.component_definition THEN "ComponentNotSet"
    ELSE IF ~bind_globals(reg).ok THEN bind_globals(reg).error
    ELSE IF env = "EventLoopCreation" THEN env
    ELSE "none"

\* the error WindowingSystemBuilder::build and WindowingSystem::new return
\* before the wait, in the order of their steps
build_error(cfg, reg, env) ==
    IF ~cfg.component_definition THEN "ComponentNotSet"
    ELSE IF env \in {"ConnectError", "RegistryInit"} THEN env
    ELSE IF ~bind_globals(reg).ok THEN bind_globals(reg).error
    ELSE IF env = "EventLoopCreation" THEN env
    ELSE "none"

\* env: which of the environment's steps fails, if one does
Build(env) ==
    /\ pc = "build"
    /\ pc' = IF build_error(config, registry, env) = "none" THEN "wait" ELSE "failed"
    /\ IF build_error(config, registry, env) \in {"none", "EventLoopCreation"}
       THEN /\ state' = setup_surface(WindowState_new(config))
            /\ reqs' = configure_layer_surface(config)
       ELSE /\ reqs' = <<>>
            /\ UNCHANGED state
    /\ last' = Failed("build", 0, 0, 0, build_error(config, registry, env))
    /\ ui' = <<>>
    /\ rendered' = NoRender
    /\ UNCHANGED <<system, registry, config, window, egl, hist>>

----------------------------------------------------------------------------
(* Protocol events: the Dispatch implementations of WindowEventHandler.    *)
(* Events are dispatched inside wait_for_configure's blocking_dispatch and *)
(* inside the event loop's dispatch_pending.                               *)

Dispatching == pc \in {"wait", "dispatch"}

\* a handler that keeps the stored size when the proposed size is degenerate
configure_size_keeps_degenerate(st, width, height) ==
    IF width > 0 /\ height > 0
    THEN PhysicalSize(st.output_size.width, st.height)
    ELSE st.size

\* a handler that takes the default panel height
configure_size_default_height(st, width, height) ==
    IF width > 0 /\ height > 0
    THEN PhysicalSize(st.output_size.width, DefaultHeight)
    ELSE PhysicalSize(st.output_size.width, st.output_size.height)

\* a handler whose size depends on the size stored before
configure_size_alternates(st, width, height) ==
    IF width > 0 /\ height > 0
    THEN PhysicalSize(st.output_size.width,
                      IF st.size.height = st.height THEN 2 * st.height ELSE st.height)
    ELSE PhysicalSize(st.output_size.width, st.output_size.height)

\* the size a Configure event makes the handler apply
configure_size(st, width, height) ==
    IF width > 0 /\ height > 0
    THEN PhysicalSize(st.output_size.width, st.height)
    ELSE PhysicalSize(st.output_size.width, st.output_size.height)

\* a handler that acknowledges after it has resized and committed
configure_requests_ack_last(serial, update_reqs) ==
    update_reqs \o <<Req("ack_configure", serial, 0)>>

\* the requests the Configure handler issues
configure_requests(serial, update_reqs) ==
    <<Req("ack_configure", serial, 0)>> \o update_reqs

LayerSurfaceConfigure(serial, width, height, redraw) ==
    /\ Dispatching
    /\ LET sz == configure_size(state, width, height)
           r  == update_size(state, window, sz.width, sz.height, redraw)
       IN  /\ state' = r.state
           /\ window' = r.window
           /\ reqs' = configure_requests(serial, r.reqs)
           /\ ui' = r.ui
    /\ last' = Op("configure", serial, width, height)
    /\ hist' = [hist EXCEPT !.configured = TRUE,
                            !.cfg = <<width, height>>,
                            !.stale = FALSE,
                            !.requested = @ \/ (state.window /\ redraw)]
    /\ rendered' = NoRender
    /\ UNCHANGED <<system, pc, registry, config, egl>>

LayerSurfaceClosed ==
    /\ Dispatching
    /\ last' = Op("closed", 0, 0, 0)
    /\ hist' = [hist EXCEPT !.closed = TRUE]
    /\ reqs' = <<>>
    /\ ui' = <<>>
    /\ rendered' = NoRender
    /\ UNCHANGED <<system, pc, registry, config, state, window, egl>>

OutputMode(width, height) ==
    /\ Dispatching
    /\ state' = set_output_size(state, as_u32(width), as_u32(height))
    /\ last' = Op("mode", width, height, 0)
    /\ hist' = [hist EXCEPT !.stale = hist.configured]
    /\ reqs' = <<>>
    /\ ui' = <<>>
    /\ rendered' = NoRender
    /\ UNCHANGED <<system, pc, registry, config, window, egl>>

\* the other output events, and every event of the registry, compositor,
\* surface, layer-shell and seat objects: logged only
OtherEvent ==
    /\ Dispatching
    /\ last' = Op("other", 0, 0, 0)
    /\ reqs' = <<>>
    /\ ui' = <<>>
    /\ rendered' = NoRender
    /\ UNCHANGED <<system, pc, registry, config, state, window, egl, hist>>

PointerMoved(position) == UiEvent("PointerMoved", position.x, position.y, "none")

\* what handle_pointer_enter and handle_pointer_motion forward
\* a handler that dispatches PointerMoved without looking for the window
pointer_moved_events_unguarded(st) == <<PointerMoved(st.current_pointer_position)>>

pointer_moved_events(st) ==
    IF st.window THEN <<PointerMoved(st.current_pointer_position)>> ELSE <<>>

handle_pointer_enter(surface_x, surface_y, redraw) ==
    /\ state' = set_current_pointer_position(state, surface_x, surface_y)
    /\ ui' = pointer_moved_events(state')
    /\ window' = IF state.window THEN dispatch_event(window, redraw) ELSE window
    /\ hist' = [hist EXCEPT !.requested = @ \/ (state.window /\ redraw)]

handle_pointer_motion(surface_x, surface_y, redraw) ==
    /\ state' = set_current_pointer_position(state, surface_x, surface_y)
    /\ ui' = pointer_moved_events(state')
    /\ window' = IF state.window THEN dispatch_event(window, redraw) ELSE window
    /\ hist' = [hist EXCEPT !.requested = @ \/ (state.window /\ redraw)]

\* a Leave handler that forgets the pointer's position
handle_pointer_leave_resets(redraw) ==
    /\ ui' = IF state.window
             THEN <<UiEvent("PointerExited", <<0, 1>>, <<0, 1>>, "none")>>
             ELSE <<>>
    /\ window' = IF state.window THEN dispatch_event(window, redraw) ELSE window
    /\ hist' = [hist EXCEPT !.requested = @ \/ (state.window /\ redraw)]
    /\ state' = [state EXCEPT !.current_pointer_position =
                                 LogicalPosition(<<0, 1>>, <<0, 1>>)]

handle_pointer_leave(redraw) ==
    /\ ui' = IF state.window
             THEN <<UiEvent("PointerExited", <<0, 1>>, <<0, 1>>, "none")>>
             ELSE <<>>
    /\ window' = IF state.window THEN dispatch_event(window, redraw) ELSE window
    /\ hist' = [hist EXCEPT !.requested = @ \/ (state.window /\ redraw)]
    /\ UNCHANGED state

pointer_button_event_pressed(is_press, position) ==
    UiEvent("PointerPressed", position.x, position.y, "Left")

\* the event handle_pointer_button builds
pointer_button_event(is_press, position) ==
    UiEvent(IF is_press THEN "PointerPressed" ELSE "PointerReleased",
            position.x, position.y, "Left")

handle_pointer_button(is_press, redraw) ==
    /\ ui' = IF state.window
             THEN <<pointer_button_event(is_press, state.current_pointer_position)>>
             ELSE <<>>
    /\ window' = IF state.window THEN dispatch_event(window, redraw) ELSE window
    /\ hist' = [hist EXCEPT !.requested = @ \/ (state.window /\ redraw)]
    /\ UNCHANGED state

PointerEnter(surface_x, surface_y, redraw) ==
    /\ Dispatching
    /\ handle_pointer_enter(surface_x, surface_y, redraw)
    /\ last' = Op("enter", surface_x, surface_y, 0)
    /\ reqs' = <<>>
    /\ rendered' = NoRender
    /\ UNCHANGED <<system, pc, registry, config, egl>>

PointerMotion(surface_x, surface_y, redraw) ==
    /\ Dispatching
    /\ handle_pointer_motion(surface_x, surface_y, redraw)
    /\ last' = Op("motion", surface_x, surface_y, 0)
    /\ reqs' = <<>>
    /\ rendered' = NoRender
    /\ UNCHANGED <<system, pc, registry, config, egl>>

PointerLeave(redraw) ==
    /\ Dispatching
    /\ handle_pointer_leave(redraw)
    /\ last' = Op("leave", 0, 0, 0)
    /\ reqs' = <<>>
    /\ rendered' = NoRender
    /\ UNCHANGED <<system, pc, registry, config, egl>>

\* button_state: 1 is Pressed, 0 is Released, anything else is an unknown
\* value; the button code of the event is not read
PointerButton(button, button_state, redraw) ==
    /\ Dispatching
    /\ handle_pointer_button(button_state = 1, redraw)
    /\ last' = Op("button", button_state, button, 0)
    /\ reqs' = <<>>
    /\ rendered' = NoRender
    /\ UNCHANGED <<system, pc, registry, config, egl>>

----------------------------------------------------------------------------
(* WindowingSystem::wait_for_configure *)

\* a test that is satisfied by any non-empty output
wait_for_configure_done_nonzero(st) ==
    st.output_size.width > 0 /\ st.output_size.height > 0

wait_for_configure_done(st) ==
    u32_gt(st.output_size.width, 1) /\ u32_gt(st.output_size.height, 1)

\* the test that ends each turn of the loop; a turn that does not leave the
\* loop changes nothing
WaitForConfigure ==
    /\ pc = "wait"
    /\ IF wait_for_configure_done(state)
       THEN /\ pc' = "configured"
            /\ last' = Op("wait_for_configure", 0, 0, 0)
            /\ reqs' = <<>>
            /\ ui' = <<>>
            /\ rendered' = NoRender
            /\ UNCHANGED <<system, registry, config, state, window, egl, hist>>
       ELSE UNCHANGED vars

\* flush or blocking_dispatch failed
WaitForConfigureError ==
    /\ pc = "wait"
    /\ pc' = "failed"
    /\ last' = Failed("wait_error", 0, 0, 0, "WaitDispatch")
    /\ reqs' = <<>>
    /\ ui' = <<>>
    /\ rendered' = NoRender
    /\ UNCHANGED <<system, registry, config, state, window, egl, hist>>

----------------------------------------------------------------------------
(* WindowingSystem::initialize_renderer_and_ui, and the event-loop setup *)

\* a surface created whatever the size
create_surface_unchecked(size) == TRUE

\* egl_context.rs create_surface: both dimensions must be non-zero
create_surface(size) == size.width # 0 /\ size.height # 0

\* the steps of EGLContextBuilder::build, in the order of the code
StageOrder ==
    << "required_fields", "display_handle", "display", "select_config",
       "create_context", "surface_handle", "create_surface", "make_current" >>

\* the calls into the EGL driver that can fail: Display::new, find_configs,
\* an empty list of configurations, create_context, create_window_surface,
\* make_current
DriverStages ==
    {"display", "find_configs", "no_config", "create_context",
     "create_window_surface", "make_current"}

\* a builder: the display and surface identifiers ("none" when not given,
\* "null" when their native pointer is null) and the size, an Option:
\* <<>> when not given, <<size>> when given
EGLContextBuilder(display_id, surface_id, size) ==
    [display_id |-> display_id, surface_id |-> surface_id, size |-> size]

EglError(kind, message) == [kind |-> kind, message |-> message]

NoError == EglError("none", "none")

\* the error of one step, NoError when it succeeds; failing: the driver
\* calls that fail when they are made
stage_error(stage, b, failing) ==
    CASE stage = "required_fields" ->
             IF b.display_id = "none"
             THEN EglError("InvalidInput", "Display ID is required")
             ELSE IF b.surface_id = "none"
             THEN EglError("InvalidInput", "Surface ID is required")
             ELSE IF b.size = <<>>
             THEN EglError("InvalidInput", "Size is required")
             ELSE NoError
      [] stage = "display_handle" ->
             IF b.display_id = "null"
             THEN EglError("InvalidInput", "Failed to create NonNull pointer for display")
             ELSE NoError
      [] stage = "display" ->
             IF "display" \in failing
             THEN EglError("EGLContextCreation", "Failed to create display")
             ELSE NoError
      [] stage = "select_config" ->
             IF "find_configs" \in failing
             THEN EglError("EGLContextCreation", "Failed to find configs")
             ELSE IF "no_config" \in failing
             THEN EglError("EGLContextCreation", "No compatible EGL configurations found.")
             ELSE NoError
      [] stage = "create_context" ->
             IF "create_context" \in failing
             THEN EglError("EGLContextCreation", "Failed to create context")
             ELSE NoError
      [] stage = "surface_handle" ->
             IF b.surface_id = "null"
             THEN EglError("InvalidInput", "Failed to create NonNull pointer for surface")
             ELSE NoError
      [] stage = "create_surface" ->
             IF ~create_surface(b.size[1])
             THEN EglError("InvalidInput",
                           IF b.size[1].width = 0 THEN "Width cannot be zero"
                                               ELSE "Height cannot be zero")
             ELSE IF "create_window_surface" \in failing
             THEN EglError("EGLContextCreation", "Failed to create window surface")
             ELSE NoError
      [] stage = "make_current" ->
             IF "make_current" \in failing
             THEN EglError("EGLContextCreation", "Unable to activate EGL context")
             ELSE NoError

\* the context build returns: current, with a drawable of the size given
EGLContext(size) == [created |-> 1, current |-> TRUE, size |-> size]

NoContext == [created |-> 0, current |-> FALSE, size |-> PhysicalSize(0, 0)]

\* the steps from the i-th on: the first error returns, with `?`
RECURSIVE build_from(_, _, _)
build_from(i, b, failing) ==
    IF i > Len(StageOrder)
    THEN [ok |-> TRUE, error |-> NoError, stages |-> StageOrder,
          context |-> EGLContext(b.size[1])]
    ELSE IF stage_error(StageOrder[i], b, failing) # NoError
    THEN [ok |-> FALSE, error |-> stage_error(StageOrder[i], b, failing),
          stages |-> SubSeq(StageOrder, 1, i), context |-> NoContext]
    ELSE build_from(i + 1, b, failing)

\* a build that clamps a zero width or height to 1
build_clamped(b, failing) ==
    IF b.size # <<>>
    THEN build_from(1, [b EXCEPT !.size =
                        << PhysicalSize(IF b.size[1].width = 0 THEN 1 ELSE b.size[1].width,
                                        IF b.size[1].height = 0 THEN 1 ELSE b.size[1].height) >>],
                    failing)
    ELSE build_from(1, b, failing)

\* a build that runs the last two steps in the other order
build_reordered(b, failing) ==
    IF stage_error("required_fields", b, failing) = NoError
           /\ stage_error("make_current", b, failing) # NoError
    THEN [ok |-> FALSE, error |-> stage_error("make_current", b, failing),
          stages |-> <<"required_fields", "make_current">>, context |-> NoContext]
    ELSE build_from(1, b, failing)

\* EGLContextBuilder::build
build(b, failing) == build_from(1, b, failing)

\* EGLContextBuilder::build with the size create_renderer hands it;
\* driver_ok: the display, configuration, context and activation steps succeed
egl_build(size, driver_ok) ==
    build(EGLContextBuilder("given", "given", <<size>>),
          IF driver_ok THEN {} ELSE DriverStages).ok

\* FemtoVGWindow::new, set_size(Physical(size)), set_scale_factor(scale)
initialize_slint_ui_window(size, scale_factor) ==
    set_scale_factor(set_size(FemtoVGWindow_new, WindowSize_Physical(size)),
                     scale_factor)

initialize_slint_ui_events(size, scale_factor) ==
    <<Resized(FemtoVGWindow_new, WindowSize_Physical(size)),
      ScaleFactorChanged(scale_factor)>>

\* a construction that returns its value although the event source could
\* not be registered
new_system_unregistered(err) ==
    IF err \in {"none", "EventSource"}
    THEN [ returned |-> TRUE, window |-> TRUE, component_instance |-> TRUE,
           event_loop_handler |-> TRUE, event_source |-> err = "none" ]
    ELSE NoSystem

\* what WindowingSystem::new returns after initialize_renderer_and_ui()?,
\* initialize_event_loop_handler() and setup_event_sources()?: Ok(system)
\* when none of them returned an error
new_system(err) ==
    IF err = "none"
    THEN [ returned |-> TRUE, window |-> TRUE, component_instance |-> TRUE,
           event_loop_handler |-> TRUE, event_source |-> TRUE ]
    ELSE NoSystem

\* the error of the last steps of WindowingSystem::new, in their order
initialize_error(size, driver_ok, renderer_ok, ui_ok, source_ok) ==
    IF ~egl_build(size, driver_ok) THEN "EGLContextCreation"
    ELSE IF ~renderer_ok THEN "FemtoVGRendererCreation"
    ELSE IF ~ui_ok THEN "SlintComponentCreation"
    ELSE IF ~source_ok THEN "EventSource"
    ELSE "none"

\* renderer_ok: FemtoVGRenderer::new succeeds on the context that was built;
\* ui_ok: platform registration, component creation and show succeed;
\* source_ok: the registration of the event source succeeds; redraw: the UI
\* framework requested a redraw while it was being set up; timer: the
\* component started a timer or an animation while it was being set up
InitializeRendererAndUi(driver_ok, renderer_ok, ui_ok, source_ok, redraw, timer) ==
    /\ pc = "configured"
    /\ last' = Failed("initialize_renderer_and_ui", 0, 0, 0,
                      initialize_error(state.size, driver_ok, renderer_ok, ui_ok, source_ok))
    /\ system' = new_system(initialize_error(state.size, driver_ok, renderer_ok, ui_ok,
                                             source_ok))
    /\ reqs' = <<>>
    /\ rendered' = NoRender
    /\ IF egl_build(state.size, driver_ok)
       THEN /\ egl' = [created |-> egl.created + 1]
            /\ ui' = IF renderer_ok
                     THEN initialize_slint_ui_events(state.size, config.scale_factor)
                     ELSE <<>>
            /\ IF renderer_ok /\ ui_ok /\ source_ok
               THEN /\ pc' = "constructed"
                    /\ window' = dispatch_event(
                           initialize_slint_ui_window(state.size, config.scale_factor),
                           redraw)
                    /\ state' = [state EXCEPT !.window = TRUE]
                    /\ hist' = [hist EXCEPT !.requested = redraw, !.timer = timer]
               ELSE /\ pc' = "failed"
                    /\ UNCHANGED <<window, state, hist>>
       ELSE /\ pc' = "failed"
            /\ ui' = <<>>
            /\ UNCHANGED <<egl, window, state, hist>>
    /\ UNCHANGED <<registry, config>>

\* the application, holding window(), asks for a redraw before run()
RequestRedraw ==
    /\ pc = "constructed"
    /\ window' = request_redraw(window)
    /\ hist' = [hist EXCEPT !.requested = TRUE]
    /\ last' = Op("request_redraw", 0, 0, 0)
    /\ reqs' = <<>>
    /\ ui' = <<>>
    /\ rendered' = NoRender
    /\ UNCHANGED <<system, pc, registry, config, state, egl>>

----------------------------------------------------------------------------
(* WindowingSystem::run and the event loop *)

\* run() renders once if needed, then enters the loop; render_ok: the render
\* pass, if there is one, succeeds and swaps
Run(render_ok, in_pass) ==
    /\ pc = "constructed"
    /\ pc' = "poll"
    /\ LET r == render_frame_if_dirty(window, in_pass)
       IN  /\ window' = r.window
           /\ rendered' = Rendered(r.passes, render_ok)
           /\ hist' = [hist EXCEPT !.requested = FALSE,
                                   !.in_pass = (r.passes = 1 /\ in_pass)]
    /\ last' = Op("run", 0, IF render_ok THEN 1 ELSE 0, IF window.is_dirty THEN 1 ELSE 0)
    /\ reqs' = <<>>
    /\ ui' = <<>>
    /\ UNCHANGED <<system, registry, config, state, egl>>

\* a read step that fails when no guard can be obtained
read_events_needs_guard(pending, read_ok) ==
    IF pending
    THEN [guards |-> 0, reads |-> 0, prepare_read |-> 2, ok |-> FALSE]
    ELSE [guards |-> 1, reads |-> 1, prepare_read |-> 1, ok |-> read_ok]

\* if let Some(guard) = event_queue.prepare_read() { guard.read()? }
\* pending: the queue already holds messages, and prepare_read returns None;
\* read() takes the guard by value, whether it succeeds or fails
read_events(pending, read_ok) ==
    IF pending
    THEN [guards |-> 0, reads |-> 0, prepare_read |-> 2, ok |-> TRUE]
    ELSE [guards |-> 1, reads |-> 1, prepare_read |-> 1, ok |-> read_ok]

\* an iteration that goes on to dispatch after a failed flush or read
HandleWaylandEventsBegin_continues(flush_ok, pending, read_ok) ==
    /\ pc = "poll"
    /\ pc' = "dispatch"
    /\ LET r == read_events(pending, read_ok)
       IN  last' = Failed("handle_wayland_events",
                          IF flush_ok THEN r.guards ELSE 0,
                          IF flush_ok THEN r.reads ELSE 0,
                          IF flush_ok THEN r.prepare_read ELSE 0,
                          IF flush_ok /\ r.ok THEN "none" ELSE "EventLoop")
    /\ reqs' = <<>>
    /\ ui' = <<>>
    /\ rendered' = NoRender
    /\ UNCHANGED <<system, registry, config, state, window, egl, hist>>

\* handle_wayland_events, first part: flush, then prepare_read and read.
\* A failure returns from the callback and, through the event loop, from
\* run().  The operation records the guards obtained, the guards consumed
\* by read() and what prepare_read returned (0 not called, 1 Some, 2 None)
HandleWaylandEventsBegin(flush_ok, pending, read_ok) ==
    /\ pc = "poll"
    /\ LET r == read_events(pending, read_ok)
       IN  /\ pc' = IF flush_ok /\ r.ok THEN "dispatch" ELSE "stopped"
           /\ last' = Failed("handle_wayland_events",
                             IF flush_ok THEN r.guards ELSE 0,
                             IF flush_ok THEN r.reads ELSE 0,
                             IF flush_ok THEN r.prepare_read ELSE 0,
                             IF flush_ok /\ r.ok THEN "none" ELSE "EventLoop")
    /\ reqs' = <<>>
    /\ ui' = <<>>
    /\ rendered' = NoRender
    /\ UNCHANGED <<system, registry, config, state, window, egl, hist>>

\* dispatch_pending failed
DispatchPendingError ==
    /\ pc = "dispatch"
    /\ pc' = "stopped"
    /\ last' = Failed("dispatch_error", 0, 0, 0, "EventLoop")
    /\ reqs' = <<>>
    /\ ui' = <<>>
    /\ rendered' = NoRender
    /\ UNCHANGED <<system, registry, config, state, window, egl, hist>>

\* an iteration whose render error ends the loop, the flag left set
HandleWaylandEventsEnd_propagating(timer_redraw, render_ok, in_pass) ==
    /\ pc = "dispatch"
    /\ LET w == dispatch_event(window, timer_redraw)
           r == render_frame_if_dirty(w, in_pass)
           failed == r.passes = 1 /\ ~render_ok
       IN  /\ pc' = IF failed THEN "stopped" ELSE "poll"
           /\ window' = IF failed THEN w ELSE r.window
           /\ rendered' = Rendered(r.passes, render_ok)
           /\ last' = Failed("render", IF timer_redraw THEN 1 ELSE 0,
                             IF render_ok THEN 1 ELSE 0, 0,
                             IF failed THEN "Rendering" ELSE "none")
    /\ hist' = [hist EXCEPT !.requested = FALSE, !.timer = FALSE]
    /\ reqs' = <<>>
    /\ ui' = <<>>
    /\ UNCHANGED <<system, registry, config, state, egl>>

\* an iteration that renders before it advances the timers
HandleWaylandEventsEnd_timers_last(timer_redraw, render_ok, in_pass) ==
    /\ pc = "dispatch"
    /\ pc' = "poll"
    /\ LET r == render_frame_if_dirty(window, in_pass)
       IN  /\ window' = dispatch_event(r.window, timer_redraw)
           /\ rendered' = Rendered(r.passes, render_ok)
    /\ hist' = [hist EXCEPT !.requested = timer_redraw, !.timer = FALSE]
    /\ last' = Op("render", IF timer_redraw THEN 1 ELSE 0, IF render_ok THEN 1 ELSE 0, 0)
    /\ reqs' = <<>>
    /\ ui' = <<>>
    /\ UNCHANGED <<system, registry, config, state, egl>>

\* handle_wayland_events, last part: update_timers_and_animations (a timer
\* may request a redraw), then render_frame_if_dirty, whose render error
\* is logged
HandleWaylandEventsEnd(timer_redraw, render_ok, in_pass) ==
    /\ pc = "dispatch"
    /\ pc' = "poll"
    /\ LET r == render_frame_if_dirty(dispatch_event(window, timer_redraw), in_pass)
       IN  /\ window' = r.window
           /\ rendered' = Rendered(r.passes, render_ok)
           /\ hist' = [hist EXCEPT !.requested = FALSE, !.timer = FALSE,
                                   !.in_pass = (r.passes = 1 /\ in_pass)]
    /\ last' = Op("render", IF timer_redraw THEN 1 ELSE 0, IF render_ok THEN 1 ELSE 0, 0)
    /\ reqs' = <<>>
    /\ ui' = <<>>
    /\ UNCHANGED <<system, registry, config, state, egl>>

----------------------------------------------------------------------------

Next ==
    \/ \E env \in BuildFailures : Build(env)
    \/ \E serial \in Serials, c \in ConfigureSizes, redraw \in BOOLEAN :
          LayerSurfaceConfigure(serial, c[1], c[2], redraw)
    \/ LayerSurfaceClosed
    \/ \E m \in ModeSizes : OutputMode(m[1], m[2])
    \/ OtherEvent
    \/ \E p \in PointerPositions, redraw \in BOOLEAN : PointerEnter(p[1], p[2], redraw)
    \/ \E p \in PointerPositions, redraw \in BOOLEAN : PointerMotion(p[1], p[2], redraw)
    \/ \E redraw \in BOOLEAN : PointerLeave(redraw)
    \/ \E button \in Buttons, button_state \in ButtonStates, redraw \in BOOLEAN :
          PointerButton(button, button_state, redraw)
    \/ WaitForConfigure
    \/ WaitForConfigureError
    \/ \E driver_ok \in BOOLEAN, renderer_ok \in BOOLEAN, ui_ok \in BOOLEAN,
             source_ok \in BOOLEAN, redraw \in BOOLEAN, timer \in BOOLEAN :
          InitializeRendererAndUi(driver_ok, renderer_ok, ui_ok, source_ok, redraw, timer)
    \/ RequestRedraw
    \/ \E render_ok \in BOOLEAN, in_pass \in BOOLEAN : Run(render_ok, in_pass)
    \/ \E flush_ok \in BOOLEAN, pending \in BOOLEAN, read_ok \in BOOLEAN :
          HandleWaylandEventsBegin(flush_ok, pending, read_ok)
    \/ DispatchPendingError
    \/ \E timer_redraw \in BOOLEAN, render_ok \in BOOLEAN, in_pass \in BOOLEAN :
          HandleWaylandEventsEnd(timer_redraw, render_ok, in_pass)

Spec == Init /\ [][Next]_vars

\* The steps the program takes by itself: construction goes on once the
\* wait can end, run() is called, and an iteration that has started
\* finishes.  The start of an iteration is not among them: the event loop
\* is run with no timeout (run(None, ..)) and its only source is the
\* connection, so an iteration starts when the compositor makes the socket
\* readable, and only then.
Fairness ==
    /\ WF_vars(\E timer_redraw \in BOOLEAN, render_ok \in BOOLEAN, in_pass \in BOOLEAN :
                   HandleWaylandEventsEnd(timer_redraw, render_ok, in_pass))
    /\ WF_vars(\E render_ok \in BOOLEAN, in_pass \in BOOLEAN : Run(render_ok, in_pass))

SpecLive == Spec /\ Fairness

\* The same program against a compositor that advertises every global,
\* built with the default height and scale factor or with with_height(48)
\* and with_scale_factor(2)
PanelConfigs ==
    { with_component_definition(WindowConfig_default),
      with_component_definition(
          with_scale_factor(with_height(WindowConfig_default, 48), <<2, 1>>)) }

PanelInit ==
    /\ pc = "build"
    /\ registry = RequiredGlobals
    /\ config \in PanelConfigs
    /\ state = WindowState_new(config)
    /\ window = NoWindow
    /\ egl = [created |-> 0]
    /\ last = Op("none", 0, 0, 0)
    /\ reqs = <<>>
    /\ ui = <<>>
    /\ rendered = NoRender
    /\ hist = NoHist
    /\ system = NoSystem

SpecPanel == PanelInit /\ [][Next]_vars

\* The configure wait against a compositor whose Mode events may carry any
\* i32, negative ones included
ReportedValues == {-1, 0, 1, 300}

\* the state WindowingSystem::new is in when it enters wait_for_configure
WaitInit ==
    /\ pc = "wait"
    /\ registry = RequiredGlobals
    /\ config \in {c \in Configs : c.component_definition}
    /\ state = setup_surface(WindowState_new(config))
    /\ window = NoWindow
    /\ egl = [created |-> 0]
    /\ last = Failed("build", 0, 0, 0, "none")
    /\ reqs = configure_layer_surface(config)
    /\ ui = <<>>
    /\ rendered = NoRender
    /\ hist = NoHist
    /\ system = NoSystem

WaitNext ==
    \/ \E width \in ReportedValues, height \in ReportedValues : OutputMode(width, height)
    \/ \E serial \in Serials, c \in ConfigureSizes :
          LayerSurfaceConfigure(serial, c[1], c[2], FALSE)
    \/ WaitForConfigure

SpecWait == WaitInit /\ [][WaitNext]_vars

----------------------------------------------------------------------------
(* The rendering context and the render adapter, driven through their    *)
(* own interfaces: EGLContextBuilder::build, the OpenGLInterface of       *)
(* EGLContext, and the WindowAdapter of FemtoVGWindow                     *)

\* the builders that are built
Builders ==
    { EGLContextBuilder(d, s, z) :
          d \in {"none", "null", "given"},
          s \in {"none", "null", "given"},
          z \in {<<>>, <<PhysicalSize(0, 30)>>, <<PhysicalSize(300, 0)>>,
                 <<PhysicalSize(300, 30)>>} }

\* the driver calls that fail during one build
DriverFailures == SUBSET DriverStages

\* the sizes the renderer resizes the drawable to (NonZeroU32 pairs)
ResizeSizes == {PhysicalSize(400, 30), PhysicalSize(1, 1)}

\* the sizes and scale factors the adapter is given
PhysicalSizes == {PhysicalSize(300, 30), PhysicalSize(100, 20)}

LogicalSizes == {<<100, 20>>, <<300, 30>>}

AdapterScaleFactors == {<<1, 1>>, <<2, 1>>, <<3, 2>>}

\* make_current called whether or not the context is current
ensure_current_always(ctx, make_current_ok) ==
    IF make_current_ok
    THEN [context |-> [ctx EXCEPT !.current = TRUE], ok |-> TRUE, issued |-> TRUE,
          error |-> "none"]
    ELSE [context |-> ctx, ok |-> FALSE, issued |-> TRUE,
          error |-> "EGLContextCreation"]

\* EGLContext::ensure_current: make_current only when the context is not
\* current; make_current_ok: the driver's answer when it is called
ensure_current(ctx, make_current_ok) ==
    IF ~ctx.current
    THEN IF make_current_ok
         THEN [context |-> [ctx EXCEPT !.current = TRUE], ok |-> TRUE,
               issued |-> TRUE, error |-> "none"]
         ELSE [context |-> ctx, ok |-> FALSE, issued |-> TRUE,
               error |-> "EGLContextCreation"]
    ELSE [context |-> ctx, ok |-> TRUE, issued |-> FALSE, error |-> "none"]

\* a resize that does not make the context current first
resize_without_ensure(ctx, size, make_current_ok) ==
    [context |-> [ctx EXCEPT !.size = size], ok |-> TRUE, issued |-> FALSE,
     error |-> "none"]

\* OpenGLInterface::resize: ensure_current()?, then the drawable is resized
resize(ctx, size, make_current_ok) ==
    LET e == ensure_current(ctx, make_current_ok)
    IN  IF e.ok
        THEN [e EXCEPT !.context = [e.context EXCEPT !.size = size]]
        ELSE e

\* what a build returns before it is called
NoResult == [ok |-> FALSE, error |-> NoError, stages |-> <<>>, context |-> NoContext]

\* an operation on the builder, the context or the adapter, with its
\* arguments and what it returned
RenderingOp(op) ==
    [ op              |-> op,
      make_current_ok |-> FALSE,   \* the driver's answer to make_current
      issued          |-> FALSE,   \* make_current was called
      err             |-> "none",  \* the error returned
      size            |-> WindowSize_Physical(PhysicalSize(0, 0)),
      scale_factor    |-> <<1, 1>>,
      builder         |-> EGLContextBuilder("none", "none", <<>>),
      failing         |-> {},
      result          |-> NoResult ]

\* in this specification last and hist are the last operation on the
\* context or the adapter and the one before it
RenderingInit ==
    /\ pc = "builder"
    /\ registry = RequiredGlobals
    /\ config = WindowConfig_default
    /\ state = WindowState_new(WindowConfig_default)
    /\ window = NoWindow
    /\ egl = NoContext
    /\ last = RenderingOp("none")
    /\ hist = RenderingOp("none")
    /\ reqs = <<>>
    /\ ui = <<>>
    /\ rendered = NoRender
    /\ system = NoSystem

\* a builder is built; with the context the renderer is made, and with the
\* renderer the adapter.  renderer_ok: FemtoVGRenderer::new succeeds.  result
\* is what build() returned, err the error of the whole step
EglBuild(b, failing, renderer_ok) ==
    /\ pc = "builder"
    /\ LET r == build(b, failing)
       IN  /\ pc' = IF ~r.ok THEN "build_failed"
                    ELSE IF renderer_ok THEN "adapter" ELSE "renderer_failed"
           /\ egl' = r.context
           /\ window' = IF r.ok /\ renderer_ok THEN FemtoVGWindow_new ELSE window
           /\ last' = [RenderingOp("build") EXCEPT
                           !.builder = b, !.failing = failing, !.result = r,
                           !.err = IF ~r.ok THEN r.error.kind
                                   ELSE IF renderer_ok THEN "none"
                                   ELSE "FemtoVGRendererCreation"]
    /\ hist' = hist
    /\ ui' = <<>>
    /\ UNCHANGED <<system, registry, config, state, reqs, rendered>>

EnsureCurrent(make_current_ok) ==
    /\ pc = "adapter"
    /\ LET r == ensure_current(egl, make_current_ok)
       IN  /\ egl' = r.context
           /\ last' = [RenderingOp("ensure_current") EXCEPT
                           !.make_current_ok = make_current_ok,
                           !.issued = r.issued, !.err = r.error]
    /\ hist' = last
    /\ ui' = <<>>
    /\ UNCHANGED <<system, pc, registry, config, state, window, reqs, rendered>>

Resize(size, make_current_ok) ==
    /\ pc = "adapter"
    /\ LET r == resize(egl, size, make_current_ok)
       IN  /\ egl' = r.context
           /\ last' = [RenderingOp("resize") EXCEPT
                           !.make_current_ok = make_current_ok,
                           !.size = WindowSize_Physical(size),
                           !.issued = r.issued, !.err = r.error]
    /\ hist' = last
    /\ ui' = <<>>
    /\ UNCHANGED <<system, pc, registry, config, state, window, reqs, rendered>>

\* another context is made current on the thread
LoseCurrent ==
    /\ pc = "adapter"
    /\ egl.current
    /\ egl' = [egl EXCEPT !.current = FALSE]
    /\ last' = RenderingOp("lose_current")
    /\ hist' = last
    /\ ui' = <<>>
    /\ UNCHANGED <<system, pc, registry, config, state, window, reqs, rendered>>

AdapterSetSize(size) ==
    /\ pc = "adapter"
    /\ window' = set_size(window, size)
    /\ ui' = <<Resized(window, size)>>
    /\ last' = [RenderingOp("set_size") EXCEPT !.size = size]
    /\ hist' = last
    /\ UNCHANGED <<system, pc, registry, config, state, egl, reqs, rendered>>

AdapterSetScaleFactor(scale_factor) ==
    /\ pc = "adapter"
    /\ window' = set_scale_factor(window, scale_factor)
    /\ ui' = <<ScaleFactorChanged(scale_factor)>>
    /\ last' = [RenderingOp("set_scale_factor") EXCEPT !.scale_factor = scale_factor]
    /\ hist' = last
    /\ UNCHANGED <<system, pc, registry, config, state, egl, reqs, rendered>>

RenderingNext ==
    \/ \E b \in Builders, failing \in DriverFailures, renderer_ok \in BOOLEAN :
          EglBuild(b, failing, renderer_ok)
    \/ \E make_current_ok \in BOOLEAN : EnsureCurrent(make_current_ok)
    \/ \E size \in ResizeSizes, make_current_ok \in BOOLEAN : Resize(size, make_current_ok)
    \/ LoseCurrent
    \/ \E size \in PhysicalSizes : AdapterSetSize(WindowSize_Physical(size))
    \/ \E size \in LogicalSizes :
          AdapterSetSize(WindowSize_Logical(<<size[1], 1>>, <<size[2], 1>>))
    \/ \E scale_factor \in AdapterScaleFactors : AdapterSetScaleFactor(scale_factor)

SpecRendering == RenderingInit /\ [][RenderingNext]_vars

----------------------------------------------------------------------------
\* The UI platform and the adapter's reference counts.  In this
\* specification hist is the Rc allocation of the adapter: strong and weak
\* are its counts, holders the Rc values the program and the UI framework
\* hold, windows the calls of FemtoVGWindow::new so far.

\* the most Rc values held at once
MaxHolders == 3

\* FemtoVGWindow::new: one Rc, and the Weak inside the adapter's own Window
Rc_new_cyclic == [strong |-> 1, weak |-> 1, holders |-> 1, windows |-> 1]

\* a platform that keeps an Rc of the adapter
CustomSlintPlatform_new_strong(rc) == [rc EXCEPT !.strong = @ + 1]

\* CustomSlintPlatform::new: the platform keeps Rc::downgrade(window)
CustomSlintPlatform_new(rc) == [rc EXCEPT !.weak = @ + 1]

\* Weak::upgrade
upgrade(rc) ==
    IF rc.strong > 0
    THEN [some |-> TRUE, rc |-> [rc EXCEPT !.strong = @ + 1, !.holders = @ + 1]]
    ELSE [some |-> FALSE, rc |-> rc]

PlatformOp(op) == [op |-> op, result |-> "none", adapter |-> NoWindow, err |-> "none"]

\* what create_window_adapter returns, and the counts after it
create_window_adapter(rc, w) ==
    LET u == upgrade(rc)
    IN  IF u.some
        THEN [rc |-> u.rc,
              ret |-> [PlatformOp("create_window_adapter") EXCEPT
                           !.result = "Ok", !.adapter = w]]
        ELSE [rc |-> u.rc,
              ret |-> [PlatformOp("create_window_adapter") EXCEPT
                           !.result = "Err",
                           !.err = "Failed to create window adapter: window no longer exists"]]

\* initialize_slint_ui has made the adapter and is about to set the platform
PlatformInit ==
    /\ pc = "ui"
    /\ registry = RequiredGlobals
    /\ config = WindowConfig_default
    /\ state = WindowState_new(WindowConfig_default)
    /\ window = FemtoVGWindow_new
    /\ egl = NoContext
    /\ last = PlatformOp("new")
    /\ hist = Rc_new_cyclic
    /\ reqs = <<>>
    /\ ui = <<>>
    /\ rendered = NoRender
    /\ system = NoSystem

\* a holder drops its Rc: with the last strong one the adapter is dropped,
\* and with the adapter the Weak inside its own Window
drop_rc(rc) ==
    [rc EXCEPT !.strong = @ - 1, !.holders = @ - 1,
               !.weak = IF rc.strong = 1 THEN @ - 1 ELSE @]

\* CustomSlintPlatform::new and set_platform.  set_platform_ok: no platform
\* was set in the process before; when one was, the boxed platform is
\* dropped with its Weak, and initialize_slint_ui returns the error and,
\* returning, drops the only Rc of the adapter
SetPlatform(set_platform_ok) ==
    /\ pc = "ui"
    /\ pc' = IF set_platform_ok THEN "platform" ELSE "platform_failed"
    /\ hist' = IF set_platform_ok THEN CustomSlintPlatform_new(hist) ELSE drop_rc(hist)
    /\ window' = IF set_platform_ok \/ drop_rc(hist).strong > 0 THEN window ELSE NoWindow
    /\ last' = [PlatformOp("set_platform") EXCEPT
                    !.err = IF set_platform_ok THEN "none"
                            ELSE "Failed to set platform: AlreadySet"]
    /\ ui' = <<>>
    /\ UNCHANGED <<system, registry, config, state, egl, reqs, rendered>>

\* the UI framework asks the platform for a window adapter
CreateWindowAdapter ==
    /\ pc = "platform"
    /\ hist.holders < MaxHolders
    /\ LET r == create_window_adapter(hist, window)
       IN  /\ hist' = r.rc
           /\ last' = r.ret
    /\ ui' = <<>>
    /\ UNCHANGED <<system, pc, registry, config, state, window, egl, reqs, rendered>>

\* a holder drops its Rc
DropAdapter ==
    /\ pc = "platform"
    /\ hist.holders > 0
    /\ hist' = drop_rc(hist)
    /\ window' = IF hist.strong = 1 THEN NoWindow ELSE window
    /\ last' = PlatformOp("drop")
    /\ ui' = <<>>
    /\ UNCHANGED <<system, pc, registry, config, state, egl, reqs, rendered>>

\* a holder uses the adapter
PlatformSetSize(size) ==
    /\ pc \in {"ui", "platform"}
    /\ hist.holders > 0
    /\ window' = set_size(window, size)
    /\ ui' = <<Resized(window, size)>>
    /\ last' = PlatformOp("set_size")
    /\ UNCHANGED <<system, pc, registry, config, state, egl, reqs, rendered, hist>>

PlatformSetScaleFactor(scale_factor) ==
    /\ pc \in {"ui", "platform"}
    /\ hist.holders > 0
    /\ window' = set_scale_factor(window, scale_factor)
    /\ ui' = <<ScaleFactorChanged(scale_factor)>>
    /\ last' = PlatformOp("set_scale_factor")
    /\ UNCHANGED <<system, pc, registry, config, state, egl, reqs, rendered, hist>>

PlatformRequestRedraw ==
    /\ pc \in {"ui", "platform"}
    /\ hist.holders > 0
    /\ window' = request_redraw(window)
    /\ ui' = <<>>
    /\ last' = PlatformOp("request_redraw")
    /\ UNCHANGED <<system, pc, registry, config, state, egl, reqs, rendered, hist>>

PlatformNext ==
    \/ \E set_platform_ok \in BOOLEAN : SetPlatform(set_platform_ok)
    \/ CreateWindowAdapter
    \/ DropAdapter
    \/ \E size \in PhysicalSizes : PlatformSetSize(WindowSize_Physical(size))
    \/ \E scale_factor \in AdapterScaleFactors : PlatformSetScaleFactor(scale_factor)
    \/ PlatformRequestRedraw

SpecPlatform == PlatformInit /\ [][PlatformNext]_vars

----------------------------------------------------------------------------
(* WindowingSystemBuilder: new() and the with_* setters, on their own     *)

\* WindowingSystemBuilder::new(); in this specification last is the last
\* setter called, with its argument in the field it is meant for, and hist
\* holds, for each field, the argument of the last call meant for it
BuilderInit ==
    /\ pc = "builder"
    /\ registry = RequiredGlobals
    /\ config = WindowConfig_default
    /\ state = WindowState_new(WindowConfig_default)
    /\ window = NoWindow
    /\ egl = [created |-> 0]
    /\ last = [op |-> "new", arg |-> WindowConfig_default]
    /\ hist = WindowConfig_default
    /\ reqs = <<>>
    /\ ui = <<>>
    /\ rendered = NoRender
    /\ system = NoSystem

BuilderFrame == UNCHANGED <<pc, registry, state, window, egl, reqs, ui, rendered, system>>

WithHeight(height) ==
    /\ config' = with_height(config, height)
    /\ last' = [op |-> "with_height", arg |-> [WindowConfig_default EXCEPT !.height = height]]
    /\ hist' = [hist EXCEPT !.height = height]
    /\ BuilderFrame

WithLayer(layer) ==
    /\ config' = with_layer(config, layer)
    /\ last' = [op |-> "with_layer", arg |-> [WindowConfig_default EXCEPT !.layer = layer]]
    /\ hist' = [hist EXCEPT !.layer = layer]
    /\ BuilderFrame

WithMargin(margin) ==
    /\ config' = with_margin(config, margin[1], margin[2], margin[3], margin[4])
    /\ last' = [op |-> "with_margin", arg |-> [WindowConfig_default EXCEPT !.margin = margin]]
    /\ hist' = [hist EXCEPT !.margin = margin]
    /\ BuilderFrame

WithAnchor(anchor) ==
    /\ config' = with_anchor(config, anchor)
    /\ last' = [op |-> "with_anchor", arg |-> [WindowConfig_default EXCEPT !.anchor = anchor]]
    /\ hist' = [hist EXCEPT !.anchor = anchor]
    /\ BuilderFrame

WithKeyboardInteractivity(interactivity) ==
    /\ config' = with_keyboard_interactivity(config, interactivity)
    /\ last' = [op |-> "with_keyboard_interactivity",
                arg |-> [WindowConfig_default EXCEPT !.keyboard_interactivity = interactivity]]
    /\ hist' = [hist EXCEPT !.keyboard_interactivity = interactivity]
    /\ BuilderFrame

WithExclusiveZone(zone) ==
    /\ config' = with_exclusive_zone(config, zone)
    /\ last' = [op |-> "with_exclusive_zone",
                arg |-> [WindowConfig_default EXCEPT !.exclusive_zone = zone]]
    /\ hist' = [hist EXCEPT !.exclusive_zone = zone]
    /\ BuilderFrame

WithNamespace(namespace) ==
    /\ config' = with_namespace(config, namespace)
    /\ last' = [op |-> "with_namespace",
                arg |-> [WindowConfig_default EXCEPT !.namespace = namespace]]
    /\ hist' = [hist EXCEPT !.namespace = namespace]
    /\ BuilderFrame

WithScaleFactor(scale_factor) ==
    /\ config' = with_scale_factor(config, scale_factor)
    /\ last' = [op |-> "with_scale_factor",
                arg |-> [WindowConfig_default EXCEPT !.scale_factor = scale_factor]]
    /\ hist' = [hist EXCEPT !.scale_factor = scale_factor]
    /\ BuilderFrame

WithComponentDefinition ==
    /\ config' = with_component_definition(config)
    /\ last' = [op |-> "with_component_definition",
                arg |-> [WindowConfig_default EXCEPT !.component_definition = TRUE]]
    /\ hist' = [hist EXCEPT !.component_definition = TRUE]
    /\ BuilderFrame

BuilderNext ==
    \/ \E height \in Heights : WithHeight(height)
    \/ \E layer \in Layers : WithLayer(layer)
    \/ \E margin \in Margins : WithMargin(margin)
    \/ \E anchor \in Anchors : WithAnchor(anchor)
    \/ \E interactivity \in KeyboardInteractivities :
          WithKeyboardInteractivity(interactivity)
    \/ \E zone \in ExclusiveZones : WithExclusiveZone(zone)
    \/ \E namespace \in Namespaces : WithNamespace(namespace)
    \/ \E scale_factor \in ScaleFactors : WithScaleFactor(scale_factor)
    \/ WithComponentDefinition

SpecBuilder == BuilderInit /\ [][BuilderNext]_vars

----------------------------------------------------------------------------
(* Properties *)

\* a step that calls render_frame_if_dirty: run(), or the end of an
\* event-loop iteration
RenderStep == pc \in {"constructed", "dispatch"} /\ pc' = "poll"

\* a redraw was requested since the previous render_frame_if_dirty, the
\* timers of the iteration that is ending included
RequestedBefore == hist.requested \/ (last'.op = "render" /\ last'.a = 1)

\* C1: a render_frame_if_dirty call performs exactly one render pass when a
\* redraw was requested since the previous call (or since creation) and
\* none otherwise, with one buffer swap for a render pass that returns Ok;
\* no other operation renders; the dirty flag goes from set to clear only
\* in such a call, and then exactly one render pass is made.
C1_RenderIffRequested ==
    [][ /\ RenderStep => rendered'.passes = IF RequestedBefore THEN 1 ELSE 0
        /\ ~RenderStep => rendered'.passes = 0
        /\ rendered'.swaps = IF last'.b = 1 THEN rendered'.passes ELSE 0
        /\ (window.is_dirty /\ ~window'.is_dirty)
               => (RenderStep /\ rendered'.passes = 1) ]_vars

\* a render step that rendered and cleared the flag, in the event loop
C1_Witness ==
    /\ last.op = "render"
    /\ rendered.passes = 1
    /\ rendered.swaps = 1
    /\ ~window.is_dirty

\* the size the last Configure event proposed
ProposedSize == PhysicalSize(hist.cfg[1], hist.cfg[2])

\* C2 as stated: once a Configure event has been handled, the stored size,
\* and the adapter's size, is the (width, height) of the last Configure.
C2_SizeIsConfigureGeometry ==
    hist.configured =>
        /\ state.size = ProposedSize
        /\ state.window => window.size = ProposedSize

\* the last step handled a Configure event with a zero width or height
DegenerateConfigureStep == last'.op = "configure" /\ (last'.b = 0 \/ last'.c = 0)

\* C3 as stated: a Configure event with a zero width or height leaves
\* OutputSize and the stored size as they were.
C3_DegenerateConfigureIsNoOp ==
    [][ DegenerateConfigureStep =>
            /\ state'.output_size = state.output_size
            /\ state'.size = state.size ]_vars

\* C3, amended: a Configure event with a zero width or height leaves
\* OutputSize as it was and sets the stored size to OutputSize, which it
\* also requests from the layer surface and commits.
C3_DegenerateConfigureAppliesOutputSize ==
    [][ DegenerateConfigureStep =>
            /\ state'.output_size = state.output_size
            /\ state'.size = state.output_size
            /\ reqs'[2] = Req("set_size", state.output_size.width, state.output_size.height)
            /\ reqs'[Len(reqs')] = Req("commit", 0, 0) ]_vars

\* a Configure(300, 0) handled when the stored size was (300, 30) and the
\* output is 300 x 200: the stored size is now (300, 200)
C3_Witness ==
    /\ last.op = "configure"
    /\ last.b = 300 /\ last.c = 0
    /\ state.output_size = PhysicalSize(300, 200)
    /\ state.size = PhysicalSize(300, 200)

\* C4: after a Configure event with a zero width or height is handled, the
\* stored size has no zero width or height, whether or not a Mode event
\* was received.
C4_DegenerateConfigureKeepsSizePositive ==
    (last.op = "configure" /\ (last.b = 0 \/ last.c = 0))
        => (state.size.width > 0 /\ state.size.height > 0)

Acks(rs) == {i \in 1..Len(rs) : rs[i][1] = "ack_configure"}

\* C5: a Configure event is acknowledged exactly once, with its own serial,
\* before the set_size, set_exclusive_zone and commit it causes; no other
\* operation acknowledges.
C5_AckOnceWithSerialFirst ==
    IF last.op = "configure"
    THEN /\ Acks(reqs) = {1}
         /\ reqs[1] = Req("ack_configure", last.a, 0)
    ELSE Acks(reqs) = {}

\* a Configure event with serial 2 was handled: ack(2), set_size,
\* set_exclusive_zone, commit
C5_Witness ==
    /\ last.op = "configure"
    /\ last.a = 2
    /\ Len(reqs) = 4
    /\ reqs[1] = Req("ack_configure", 2, 0)
    /\ reqs[2][1] = "set_size"
    /\ reqs[4][1] = "commit"


\* C6: wait_for_configure returns Ok, and renderer initialisation starts,
\* only after a layer-surface Configure event has been handled.
C6_ConfiguredOnlyAfterConfigure ==
    pc \in {"configured", "constructed", "poll", "dispatch", "stopped"}
        => hist.configured

Positive(size) == size.width > 0 /\ size.height > 0

\* C7: the rendering context is created at most once, by renderer
\* initialisation and by no event, and when it is created both the stored
\* size handed to the builder and OutputSize have positive width and height.
C7_ContextCreatedOnceWithPositiveSize ==
    [][ /\ egl'.created <= 1
        /\ egl'.created # egl.created =>
               /\ pc = "configured"
               /\ Positive(state.size)
               /\ Positive(state.output_size) ]_vars

\* the context was created with size (400, 30), and later events came
C7_Witness ==
    /\ egl.created = 1
    /\ pc = "dispatch"
    /\ last.op = "configure"
    /\ state.size = PhysicalSize(400, 30)

\* the default configuration, with the root component set
DefaultConfig ==
    config = [WindowConfig_default EXCEPT !.component_definition = TRUE]

\* run() found the dirty flag set, and its render pass succeeded
RunRenderedOk == last.op = "run" /\ last.b = 1 /\ last.c = 1

\* C8 as stated: with the default configuration and Configure(300, 30)
\* handled, run() is reached with the adapter's size (300, 30), and its
\* first render_frame_if_dirty swaps exactly once (the UI framework having
\* requested its first frame, and the render pass succeeding).
C8_EndToEnd ==
    (RunRenderedOk /\ DefaultConfig /\ hist.cfg = <<300, 30>>)
        => (window.size = PhysicalSize(300, 30) /\ rendered.swaps = 1)

Resizes(rs) ==
    {i \in 1..Len(rs) : rs[i][1] \in {"set_size", "set_exclusive_zone", "commit"}}

\* C9: once a Closed event has been handled, no operation issues a
\* set_size, set_exclusive_zone or commit request.
C9_NoRequestsAfterClosed == hist.closed => Resizes(reqs) = {}

\* the fraction r times the fraction s equals the integer v
TimesIs(r, s, v) == r[1] * s[1] = v * r[2] * s[2]

\* PointerState is the physical position of the last Enter or Motion event
\* divided by the scale factor
PointerStateScaled ==
    /\ state.scale_factor[1] > 0
    /\ TimesIs(state.current_pointer_position.x, state.scale_factor, last.a)
    /\ TimesIs(state.current_pointer_position.y, state.scale_factor, last.b)

OnePointerMoved ==
    /\ Len(ui) = 1
    /\ ui[1].type = "PointerMoved"
    /\ ui[1].x = state.current_pointer_position.x
    /\ ui[1].y = state.current_pointer_position.y

\* C10 as stated: every Enter or Motion event at (x, y) makes PointerState
\* (x/s, y/s) and forwards exactly one pointer-moved event at that position.
C10_PointerMovedForwarded ==
    last.op \in {"enter", "motion"} => (PointerStateScaled /\ OnePointerMoved)

\* C10, amended: every Enter or Motion event at (x, y) makes PointerState
\* (x/s, y/s); when the render adapter exists exactly one pointer-moved
\* event at that position is forwarded, and before it exists none is.
C10_PointerMovedForwardedToAdapter ==
    last.op \in {"enter", "motion"} =>
        /\ PointerStateScaled
        /\ IF state.window THEN OnePointerMoved ELSE ui = <<>>

\* Enter at (100, 50) with scale factor 2: pointer-moved at (50, 25)
C10_Witness ==
    /\ last = Op("enter", 100, 50, 0)
    /\ state.scale_factor = <<2, 1>>
    /\ state.current_pointer_position = LogicalPosition(<<50, 1>>, <<25, 1>>)
    /\ ui = <<UiEvent("PointerMoved", <<50, 1>>, <<25, 1>>, "none")>>


\* the event a Button event with state button_state forwards, at position
ButtonEvent(button_state, position) ==
    UiEvent(IF button_state = 1 THEN "PointerPressed" ELSE "PointerReleased",
            position.x, position.y, "Left")

\* C11 as stated: a Button event forwards exactly one event, at the current
\* PointerState, PointerPressed for state Pressed and PointerReleased for
\* any other, with the button Left.
C11_ButtonForwardsOne ==
    last.op = "button" =>
        ui = <<ButtonEvent(last.a, state.current_pointer_position)>>

\* C11, amended: a Button event leaves PointerState unchanged; when the
\* render adapter exists it forwards exactly one event at that PointerState,
\* PointerPressed for state Pressed and PointerReleased for any other, with
\* the button Left whatever button was reported; before the adapter exists
\* it forwards nothing.
C11_ButtonForwardsToAdapter ==
    [][ last'.op = "button" =>
            /\ state' = state
            /\ ui' = IF state.window
                     THEN <<ButtonEvent(last'.a, state.current_pointer_position)>>
                     ELSE <<>> ]_vars

\* Enter at (100, 50) with scale factor 2, then the right button in an
\* undefined state: PointerReleased, Left, at (50, 25)
C11_Witness ==
    /\ last = Op("button", 2, 273, 0)
    /\ state.current_pointer_position = LogicalPosition(<<50, 1>>, <<25, 1>>)
    /\ ui = <<UiEvent("PointerReleased", <<50, 1>>, <<25, 1>>, "Left")>>


\* the registry lacks a required global, and construction got as far as
\* binding
BindFails ==
    /\ ~(RequiredGlobals \subseteq registry)
    /\ config.component_definition

\* C12: when a required global is absent, whichever it is, construction
\* returns Err with the binding's error, no surface, layer surface or
\* pointer is created and nothing is requested of them; construction goes
\* past the binding only when all four globals are present.
C12_MissingGlobalFailsConstruction ==
    [][ /\ (last'.op = "build" /\ BindFails /\ last'.err \notin {"ConnectError", "RegistryInit"})
            => /\ pc' = "failed"
               /\ last'.err = "WaylandDispatch"
               /\ state' = WindowState_new(config)
               /\ reqs' = <<>>
        /\ (pc = "build" /\ pc' = "wait") => RequiredGlobals \subseteq registry ]_vars

\* construction failed in the binding with only the layer shell missing
C12_Witness ==
    /\ registry = RequiredGlobals \ {"ZwlrLayerShellV1"}
    /\ pc = "failed"
    /\ last.op = "build"
    /\ last.err = "WaylandDispatch"
    /\ ~state.surface /\ ~state.layer_surface

\* C13: a failure to bind a required global is reported with the error kind
\* GlobalInitialization.
C13_BindFailureIsGlobalInitialization ==
    (last.op = "build" /\ BindFails /\ last.err \notin {"ConnectError", "RegistryInit"})
        => last.err = "GlobalInitialization"


\* the physical size p is the size sz under the scale factor s: sz itself
\* when it is physical, sz multiplied by s when it is logical
PhysicalUnder(p, sz, s) ==
    IF sz.kind = "Physical"
    THEN /\ p.width * sz.width[2] = sz.width[1]
         /\ p.height * sz.height[2] = sz.height[1]
    ELSE /\ p.width * sz.width[2] * s[2] = sz.width[1] * s[1]
         /\ p.height * sz.height[2] * s[2] = sz.height[1] * s[1]

\* C14: the adapter's scale factor is the one last given to
\* set_scale_factor (1 before any), and after set_size(sz) size() is sz
\* when sz is physical and sz multiplied by that scale factor when sz is
\* logical.
C14_SetSizeUsesLastScaleFactor ==
    [][ /\ last'.op = "set_size" =>
               /\ PhysicalUnder(window'.size, last'.size, window.scale_factor)
               /\ window'.scale_factor = window.scale_factor
        /\ last'.op = "set_scale_factor" => window'.scale_factor = last'.scale_factor
        /\ last'.op = "build" => window'.scale_factor = <<1, 1>> ]_vars

\* set_scale_factor(2), then set_size(Logical(100, 20)): size() is (200, 40)
C14_Witness ==
    /\ hist.op = "set_scale_factor" /\ hist.scale_factor = <<2, 1>>
    /\ last.op = "set_size"
    /\ last.size = WindowSize_Logical(<<100, 1>>, <<20, 1>>)
    /\ window.size = PhysicalSize(200, 40)


\* C15: resize(width, height) with width > 0 and height > 0 returns Ok with
\* the context current and the drawable's size (width, height), having made
\* the context current first exactly when it was not; when making it
\* current fails it returns an error and the drawable keeps its size.
C15_ResizeLeavesCurrentAndSized ==
    [][ last'.op = "resize" =>
            /\ to_physical(last'.size, <<1, 1>>).width > 0
            /\ to_physical(last'.size, <<1, 1>>).height > 0
            /\ last'.issued = ~egl.current
            /\ IF egl.current \/ last'.make_current_ok
               THEN /\ last'.err = "none"
                    /\ egl'.current
                    /\ egl'.size = to_physical(last'.size, <<1, 1>>)
               ELSE /\ last'.err = "EGLContextCreation"
                    /\ egl' = egl ]_vars

\* the context was not current; resize made it current and resized the
\* drawable to (400, 30)
C15_Witness ==
    /\ hist.op = "lose_current"
    /\ last.op = "resize" /\ last.issued /\ last.err = "none"
    /\ egl.current
    /\ egl.size = PhysicalSize(400, 30)

\* the call made the context current
MadeCurrent(o) == o.issued /\ o.err = "none"

\* C16: ensure_current calls make_current exactly when the context is not
\* current, and changes nothing else; of two calls in a row at most one
\* makes the context current, and the second leaves the state as the first
\* left it, a make_current that failed being tried again by the next call.
C16_EnsureCurrentIdempotent ==
    [][ /\ last'.op = "ensure_current" =>
               /\ last'.issued = ~egl.current
               /\ last'.err = "none" => egl'.current
               /\ egl'.size = egl.size
        /\ IF last.op = "ensure_current" /\ last'.op = "ensure_current"
           THEN /\ ~(MadeCurrent(last) /\ MadeCurrent(last'))
                /\ (last.err = "none" \/ last'.make_current_ok = last.make_current_ok)
                       => egl' = egl
                /\ last.err = "none" => ~last'.issued
           ELSE TRUE ]_vars

\* two calls in a row: the first made the context current, the second
\* called nothing
C16_Witness ==
    /\ hist.op = "ensure_current" /\ hist.issued /\ hist.err = "none"
    /\ last.op = "ensure_current" /\ ~last.issued /\ last.err = "none"
    /\ egl.current


\* the builder lacks a field or holds a null display pointer: found before
\* any call into the driver
InvalidEarly(b) ==
    b.display_id \in {"none", "null"} \/ b.surface_id = "none" \/ b.size = <<>>

\* the builder holds a null surface pointer or a size with a zero width or
\* height: found after the display, configuration and context calls
InvalidLate(b) ==
    /\ ~InvalidEarly(b)
    /\ \/ b.surface_id = "null"
       \/ b.size[1].width = 0
       \/ b.size[1].height = 0

\* the driver calls made before the surface is created
BeforeSurface == {"display", "find_configs", "no_config", "create_context"}

\* the driver calls in the order the build makes them, the step each
\* belongs to and the message of its failure
DriverOrder ==
    << "display", "find_configs", "no_config", "create_context",
       "create_window_surface", "make_current" >>

DriverStep ==
    << "display", "select_config", "select_config", "create_context",
       "create_surface", "make_current" >>

DriverMessage ==
    << "Failed to create display", "Failed to find configs",
       "No compatible EGL configurations found.", "Failed to create context",
       "Failed to create window surface", "Unable to activate EGL context" >>

\* the first driver call, in the order of the build, that fails
FirstFailing(failing) ==
    CHOOSE i \in 1..Len(DriverOrder) :
        /\ DriverOrder[i] \in failing
        /\ \A j \in 1..(i - 1) : DriverOrder[j] \notin failing

\* C17 as stated: a build with a zero width or height, a missing display
\* identifier, surface identifier or size, or a null native pointer returns
\* an InvalidInput error and no context.
C17_InvalidInputAlways ==
    (last.op = "build" /\ (InvalidEarly(last.builder) \/ InvalidLate(last.builder))) =>
        /\ last.result.error.kind = "InvalidInput"
        /\ egl = NoContext

\* C17, amended: a build with a zero width or height, a missing display
\* identifier, surface identifier or size, or a null native pointer returns
\* an error and no context.  The error is InvalidInput when a field is
\* missing or the display pointer is null; for a null surface pointer or a
\* zero width or height it is InvalidInput when the display, configuration
\* and context calls succeed, and the EGLContextCreation error of the first
\* of them that fails otherwise.  A context that is built has the builder's
\* size, which is positive (nothing is clamped).
C17_InvalidInputRejected ==
    last.op = "build" =>
        /\ (InvalidEarly(last.builder) \/ InvalidLate(last.builder)) =>
               /\ ~last.result.ok
               /\ egl = NoContext
               /\ ~window.exists
        /\ InvalidEarly(last.builder) => last.result.error.kind = "InvalidInput"
        /\ (InvalidLate(last.builder) /\ last.failing \cap BeforeSurface = {}) =>
               last.result.error.kind = "InvalidInput"
        /\ (InvalidLate(last.builder) /\ last.failing \cap BeforeSurface # {}) =>
               /\ last.result.error.kind = "EGLContextCreation"
               /\ last.result.error.message = DriverMessage[FirstFailing(last.failing)]
        /\ last.result.ok =>
               /\ egl.size = last.builder.size[1]
               /\ egl.size.width > 0 /\ egl.size.height > 0

\* a build with the size (0, 30) against a driver whose display call fails:
\* the display's error is returned, not InvalidInput
C17_Witness ==
    /\ last.op = "build"
    /\ last.builder = EGLContextBuilder("given", "given", <<PhysicalSize(0, 30)>>)
    /\ "display" \in last.failing
    /\ last.result.error.kind = "EGLContextCreation"
    /\ last.result.error.message = "Failed to create display"
    /\ egl = NoContext

\* C18: the steps of a build run in the fixed order display, configuration
\* selection, context creation, surface creation, make-current; with valid
\* input the build succeeds when no driver call fails, and otherwise ends
\* at the step of the first call that fails, with an error value whose
\* message is that call's own; no later step runs, and every outcome is Ok
\* or an error value.
C18_FirstFailingStageNamed ==
    last.op = "build" =>
        /\ last.result.stages = SubSeq(StageOrder, 1, Len(last.result.stages))
        /\ last.result.ok <=> last.result.error.kind = "none"
        /\ last.result.error.kind \in {"none", "InvalidInput", "EGLContextCreation"}
        /\ \A i, j \in 1..Len(DriverMessage) :
               i # j => DriverMessage[i] # DriverMessage[j]
        /\ (~InvalidEarly(last.builder) /\ ~InvalidLate(last.builder)) =>
               IF last.failing = {}
               THEN /\ last.result.ok
                    /\ last.result.stages = StageOrder
                    /\ egl.current
               ELSE /\ last.result.error.kind = "EGLContextCreation"
                    /\ last.result.error.message = DriverMessage[FirstFailing(last.failing)]
                    /\ last.result.stages[Len(last.result.stages)] = DriverStep[FirstFailing(last.failing)]
                    /\ egl = NoContext

\* no configuration is compatible and make_current would fail: the build
\* ends in the configuration selection
C18_Witness ==
    /\ last.op = "build"
    /\ last.builder = EGLContextBuilder("given", "given", <<PhysicalSize(300, 30)>>)
    /\ last.failing = {"no_config", "make_current"}
    /\ last.result.error.message = "No compatible EGL configurations found."
    /\ last.result.stages = SubSeq(StageOrder, 1, 4)


\* C19: a render pass that returns an error is swallowed: the call returns
\* normally with the dirty flag cleared, whether run() or an event-loop
\* iteration made it, no error is returned, and the loop goes on to its
\* next iteration.
C19_RenderErrorSwallowed ==
    [][ (rendered'.passes = 1 /\ rendered'.swaps = 0) =>
            /\ ~window'.is_dirty
            /\ last'.err = "none"
            /\ pc' = "poll" ]_vars

\* an event-loop iteration whose render pass failed: the flag is clear and
\* the loop waits for its next iteration
C19_Witness ==
    /\ last.op = "render"
    /\ last.b = 0
    /\ last.err = "none"
    /\ rendered.passes = 1
    /\ rendered.swaps = 0
    /\ ~window.is_dirty
    /\ pc = "poll"

\* the steps of run(): its first render and the event-loop iterations
Running == pc \in {"constructed", "poll", "dispatch"}

\* C20: a failed flush, read or dispatch ends the iteration at once,
\* without the timer advance and the render, and makes run() return Err;
\* after that nothing runs; and run() returns for no other reason.
C20_LoopStopsOnlyOnIoError ==
    [][ /\ pc # "stopped"
        /\ (Running /\ last'.err # "none") =>
               /\ pc' = "stopped"
               /\ last'.op \in {"handle_wayland_events", "dispatch_error"}
               /\ rendered'.passes = 0
               /\ window' = window /\ state' = state
        /\ pc' = "stopped" => (Running /\ last'.err = "EventLoop") ]_vars

\* run() has returned Err after a dispatch failure
C20_Witness ==
    /\ pc = "stopped"
    /\ last.op = "dispatch_error"
    /\ last.err = "EventLoop"
    /\ rendered.passes = 0


\* the handlers of protocol messages
MessageOps ==
    {"configure", "closed", "mode", "other", "enter", "motion", "leave", "button"}

\* C21: an event-loop iteration runs flush and read, then the dispatch of
\* the pending messages, then the timer advance, then render_frame_if_dirty:
\* no message is handled and nothing is rendered before the flush and
\* read, no render pass is made while messages are handled, and the render
\* step that ends the iteration makes a pass exactly when the messages or
\* the timers of the iteration left the flag set, over the size and scale
\* factor the messages left in the adapter.
C21_IterationOrder ==
    [][ /\ pc = "poll" =>
               /\ last'.op = "handle_wayland_events"
               /\ pc' \in {"dispatch", "stopped"}
               /\ rendered'.passes = 0
               /\ window' = window /\ state' = state
        /\ (pc = "dispatch" /\ pc' = "dispatch") =>
               /\ last'.op \in MessageOps
               /\ rendered'.passes = 0
        /\ (pc = "dispatch" /\ pc' = "poll") =>
               /\ last'.op = "render"
               /\ rendered'.passes = IF window.is_dirty \/ last'.a = 1 THEN 1 ELSE 0
               /\ window'.size = window.size
               /\ window'.scale_factor = window.scale_factor
               /\ ~window'.is_dirty
               /\ state' = state
        /\ (last'.op = "render") => pc = "dispatch" ]_vars

\* an iteration has ended with a render pass that no timer asked for: a
\* message of the iteration set the flag, and the pass was made over the
\* size a Configure event produced
C21_Witness ==
    /\ pc = "poll"
    /\ last.op = "render"
    /\ last.a = 0
    /\ rendered.passes = 1
    /\ hist.configured
    /\ window.size = PhysicalSize(400, 30)


\* C22: the flush-and-read step of an iteration obtains at most one read
\* guard, and every guard it obtains is consumed by read() before the step
\* ends, so none is outstanding afterwards; when prepare_read gives no
\* guard nothing is read, no error is returned and the iteration goes on to
\* dispatch the pending messages; the step returns no error without having
\* called prepare_read.
C22_SingleReadGuard ==
    [][ last'.op = "handle_wayland_events" =>
            /\ last'.a \in {0, 1}
            /\ last'.b = last'.a
            /\ last'.c = 2 =>
                   /\ last'.a = 0
                   /\ last'.err = "none"
                   /\ pc' = "dispatch"
            /\ last'.c = 1 => last'.a = 1
            /\ last'.err = "none" => last'.c # 0 ]_vars

\* prepare_read gave no guard: nothing was read and the iteration is
\* dispatching
C22_Witness ==
    /\ last.op = "handle_wayland_events"
    /\ last.c = 2
    /\ last.a = 0 /\ last.b = 0
    /\ last.err = "none"
    /\ pc = "dispatch"


\* C23: when the UI framework holds a timer or animation deadline while
\* the event loop waits, the loop wakes, with or without protocol traffic:
\* the timers are advanced (after which the deadline is no longer pending)
\* or run() has returned.
C23_TimerWakesLoop ==
    (pc = "poll" /\ hist.timer) ~> (~hist.timer \/ pc = "stopped")


\* C24: a request_redraw made after render_frame_if_dirty has tested the
\* flag, from inside the render pass, is not erased by the clear: the flag
\* is set when the call returns.
C24_RedrawInPassSurvives ==
    [][ (rendered'.passes = 1 /\ hist'.in_pass) => window'.is_dirty ]_vars


\* C25: after every operation that may change what the UI shows the dirty
\* flag is set: after the set_size and set_scale_factor of a Configure
\* event handled with the adapter present, after the set_size and
\* set_scale_factor of the UI set-up, and after request_redraw.
C25_VisualChangeSetsFlag ==
    [][ /\ (last'.op = "configure" /\ state.window) => window'.is_dirty
        /\ (last'.op = "initialize_renderer_and_ui" /\ pc' = "constructed")
               => window'.is_dirty
        /\ last'.op = "request_redraw" => window'.is_dirty ]_vars


\* the phases of construction, and the states in which the caller holds
\* the value construction returned
Constructing == pc \in {"build", "wait", "configured"}

Constructed == pc \in {"constructed", "poll", "dispatch", "stopped"}

\* C26: a construction phase that fails makes construction return Err and
\* no WindowingSystem value; the caller holds a value exactly when
\* construction returned Ok, and then the window, the component instance
\* and the event-loop handler are present, the adapter exists and is known
\* to the Surface State, and the event source is registered.
C26_NoPartialConstruction ==
    [][ /\ (Constructing /\ last'.err # "none") =>
               (pc' = "failed" /\ ~system'.returned)
        /\ system'.returned <=> (pc' \in {"constructed", "poll", "dispatch", "stopped"})
        /\ system'.returned =>
               /\ system'.window /\ system'.component_instance
               /\ system'.event_loop_handler /\ system'.event_source
               /\ window'.exists /\ state'.window
        /\ pc' = "failed" => (system' = NoSystem /\ last'.err # "none") ]_vars

\* construction has failed at its last step, the registration of the
\* event source, with the rendering context and the adapter already made:
\* no value was returned
C26_Witness ==
    /\ pc = "failed"
    /\ last.op = "initialize_renderer_and_ui"
    /\ last.err = "EventSource"
    /\ egl.created = 1
    /\ system = NoSystem


\* C27: build() on a builder whose component definition was never set
\* returns the error "Slint component not set", whatever the other fields,
\* whatever the compositor advertises and whether or not a connection could
\* be made: nothing is connected, no surface, layer surface or pointer is
\* created and no request is issued.
C27_BuildWithoutComponentFails ==
    [][ (pc = "build" /\ ~config.component_definition) =>
            /\ last'.op = "build"
            /\ last'.err = "ComponentNotSet"
            /\ pc' = "failed"
            /\ reqs' = <<>>
            /\ state' = WindowState_new(config)
            /\ ~system'.returned ]_vars

\* a builder with a scale factor of 2 and no component definition was
\* built against a compositor that advertises every global
C27_Witness ==
    /\ pc = "failed"
    /\ last.op = "build"
    /\ last.err = "ComponentNotSet"
    /\ ~config.component_definition
    /\ config.scale_factor = <<2, 1>>
    /\ registry = RequiredGlobals
    /\ ~state.surface


\* the requests made of the layer surface
LayerSurfaceRequests ==
    {"set_anchor", "set_margin", "set_exclusive_zone", "set_keyboard_interactivity",
     "set_size", "ack_configure"}

\* C28: in the requests an operation issues, every request made of the
\* layer surface (anchor, margin, exclusive zone, keyboard interactivity,
\* size, acknowledgement) is followed by a commit of the surface issued by
\* the same operation, before it returns.
C28_AttributeChangesCommitted ==
    \A i \in 1..Len(reqs) :
        reqs[i][1] \in LayerSurfaceRequests =>
            \E j \in (i + 1)..Len(reqs) : reqs[j][1] = "commit"

\* a Configure event was handled in the event loop: the size and the
\* exclusive zone were set and the surface was committed last
C28_Witness ==
    /\ pc = "dispatch"
    /\ last.op = "configure"
    /\ Len(reqs) = 4
    /\ reqs[2] = Req("set_size", 400, 30)
    /\ reqs[3][1] = "set_exclusive_zone"
    /\ reqs[4] = Req("commit", 0, 0)


\* C29: an output Mode event with a size the protocol allows (width and
\* height not negative) makes OutputSize that size and changes nothing else
\* of the Surface State; it issues no request, forwards no event to the UI
\* framework, leaves the adapter as it was and renders nothing.  Every other
\* output event and every event of the registry, compositor, surface,
\* layer-shell and seat objects leaves the Surface State and the adapter
\* unchanged, requests nothing and forwards nothing.
C29_ModeSetsOutputSizeOnly ==
    [][ /\ last'.op = "mode" =>
               /\ state' = [state EXCEPT !.output_size = PhysicalSize(last'.a, last'.b)]
               /\ window' = window
               /\ reqs' = <<>> /\ ui' = <<>>
               /\ rendered'.passes = 0
               /\ pc' = pc
        /\ last'.op = "other" =>
               /\ state' = state
               /\ window' = window
               /\ reqs' = <<>> /\ ui' = <<>>
               /\ rendered'.passes = 0
               /\ pc' = pc ]_vars

\* a Mode event of 400x300 was handled in the event loop after a Configure
\* event: OutputSize is 400x300 and the stored size is still the one the
\* Configure event left
C29_Witness ==
    /\ pc = "dispatch"
    /\ last.op = "mode" /\ last.a = 400 /\ last.b = 300
    /\ state.output_size = PhysicalSize(400, 300)
    /\ state.size = PhysicalSize(300, 30)
    /\ state.window
    /\ reqs = <<>> /\ ui = <<>>


PointerExited == UiEvent("PointerExited", <<0, 1>>, <<0, 1>>, "none")

\* C30 as stated: a Leave event forwards exactly one pointer-exited event
\* and leaves PointerState unchanged.
C30_LeaveForwardsOne ==
    [][ last'.op = "leave" => (ui' = <<PointerExited>> /\ state' = state) ]_vars

\* C30, amended: a Leave event leaves PointerState, and the rest of the
\* Surface State, unchanged and issues no request; it forwards exactly one
\* pointer-exited event when the adapter exists and nothing before it
\* exists; a Button event that follows a Leave is forwarded at the position
\* the last Enter or Motion event left.
C30_LeaveForwardsToAdapter ==
    [][ /\ last'.op = "leave" =>
               /\ state' = state
               /\ reqs' = <<>>
               /\ ui' = IF state.window THEN <<PointerExited>> ELSE <<>>
        /\ (last.op = "leave" /\ last'.op = "button" /\ state.window) =>
               /\ state'.current_pointer_position = state.current_pointer_position
               /\ ui' = <<ButtonEvent(last'.a, state.current_pointer_position)>>
        /\ (last.op \in {"enter", "motion"} /\ last'.op = "leave") =>
               TimesIs(state'.current_pointer_position.x, state.scale_factor, last.a)
      ]_vars

\* a Leave event was handled with the adapter present, after an Enter or
\* Motion at (100, 50) under a scale factor of 2: one pointer-exited event
\* was forwarded and the position is still (50, 25)
C30_Witness ==
    /\ last.op = "leave"
    /\ state.window
    /\ ui = <<PointerExited>>
    /\ state.scale_factor = <<2, 1>>
    /\ state.current_pointer_position = LogicalPosition(<<50, 1>>, <<25, 1>>)


\* the configuration fields other than the given ones are unchanged
OnlyChanged(field) ==
    \A f \in DOMAIN config : f # field => config'[f] = config[f]

\* C31: every setter writes its argument to its own field of the
\* configuration and leaves the other fields as they were; so every field
\* holds the argument of the last call meant for it, or its default: height
\* 30, layer Top, margin (0,0,0,0), anchor Top|Left|Right, exclusive zone
\* -1, scale factor 1 and no component definition.
C31_SettersWriteOwnField ==
    [][ /\ \E f \in DOMAIN config :
               /\ last'.op = IF f = "component_definition"
                             THEN "with_component_definition"
                             ELSE IF f = "height" THEN "with_height"
                             ELSE IF f = "layer" THEN "with_layer"
                             ELSE IF f = "margin" THEN "with_margin"
                             ELSE IF f = "anchor" THEN "with_anchor"
                             ELSE IF f = "keyboard_interactivity"
                             THEN "with_keyboard_interactivity"
                             ELSE IF f = "exclusive_zone" THEN "with_exclusive_zone"
                             ELSE IF f = "namespace" THEN "with_namespace"
                             ELSE "with_scale_factor"
               /\ config'[f] = last'.arg[f]
               /\ OnlyChanged(f)
        /\ config' = hist'
        /\ hist = WindowConfig_default =>
               /\ hist.height = 30 /\ hist.layer = "Top"
               /\ hist.margin = <<0, 0, 0, 0>>
               /\ hist.anchor = {"Top", "Left", "Right"}
               /\ hist.exclusive_zone = -1
               /\ hist.scale_factor = <<1, 1>>
               /\ ~hist.component_definition ]_vars

\* with_height(48), with_exclusive_zone(48), with_height(30) and
\* with_scale_factor(2) were called, in some order with the zone last: the
\* height is that of its last call and the fields never set are defaults
C31_Witness ==
    /\ pc = "builder"
    /\ last.op = "with_exclusive_zone"
    /\ config.exclusive_zone = 48
    /\ config.height = 30
    /\ config.scale_factor = <<2, 1>>
    /\ config.layer = "Top"
    /\ config.margin = <<0, 0, 0, 0>>
    /\ ~config.component_definition


\* C32: handling a Configure event with width > 0 and height > 0 stores
\* (OutputSize.width, configured panel height) as the surface size and
\* requests that size from the layer surface, whatever width and height the
\* event proposes and whatever the panel height and the output's size are.
C32_ConfigureAppliesOutputWidthAndHeight ==
    [][ (last'.op = "configure" /\ last'.b > 0 /\ last'.c > 0) =>
            /\ state'.size = PhysicalSize(state.output_size.width, config.height)
            /\ state'.output_size = state.output_size
            /\ Len(reqs') = 4
            /\ reqs'[2] = Req("set_size", state.output_size.width, config.height) ]_vars

\* a panel of height 48 on an output 400 wide has handled Configure(200, 50)
C32_Witness ==
    /\ last.op = "configure" /\ last.b = 200 /\ last.c = 50
    /\ config.height = 48
    /\ state.output_size = PhysicalSize(400, 300)
    /\ state.size = PhysicalSize(400, 48)
    /\ reqs[2] = Req("set_size", 400, 48)


\* the last Configure event handled had a positive width and height, and
\* no Mode event was handled since
SettledConfigure ==
    /\ hist.configured
    /\ hist.cfg[1] > 0 /\ hist.cfg[2] > 0
    /\ ~hist.stale

\* C33: a Configure event with positive width and height, handled after
\* another such event with no Mode event between them, leaves the stored
\* size as it was and requests from the layer surface the size that is
\* already stored, which is the size the first one requested: the second
\* exchange asks for nothing new.
C33_ConfigureRoundTripStable ==
    [][ (SettledConfigure /\ last'.op = "configure" /\ last'.b > 0 /\ last'.c > 0) =>
            /\ state'.size = state.size
            /\ state'.output_size = state.output_size
            /\ reqs'[2] = Req("set_size", state.size.width, state.size.height)
            /\ reqs'[3] = Req("set_exclusive_zone", state.exclusive_zone, 0) ]_vars

\* the second of two Configure events has been handled in the event loop,
\* proposing another size than the first: the stored size is the one the
\* first left
C33_Witness ==
    /\ pc = "dispatch"
    /\ last.op = "configure" /\ last.a = 2 /\ last.b = 200 /\ last.c = 50
    /\ SettledConfigure
    /\ state.size = PhysicalSize(300, 30)
    /\ reqs[2] = Req("set_size", 300, 30)
    /\ state.window


\* C34: wait_for_configure returns Ok only when OutputSize has a width and
\* a height greater than 1, and returns Err only for a failed flush or
\* dispatch; while OutputSize has a dimension of 1 or less the wait goes
\* on or fails, and a Configure event handled during the wait neither ends
\* it nor changes OutputSize.
C34_WaitEndsOnOutputSize ==
    [][ pc = "wait" =>
            /\ pc' \in {"wait", "configured", "failed"}
            /\ pc' = "configured" =>
                   /\ state.output_size.width > 1 /\ state.output_size.height > 1
                   /\ last'.op = "wait_for_configure" /\ last'.err = "none"
                   /\ state' = state
            /\ pc' = "failed" =>
                   (last'.op = "wait_error" /\ last'.err = "WaitDispatch")
            /\ last'.op = "configure" =>
                   (pc' = "wait" /\ state'.output_size = state.output_size) ]_vars

\* two Configure events have been handled during the wait and the output
\* has reported 1x1: the wait goes on
C34_Witness ==
    /\ pc = "wait"
    /\ last.op = "configure" /\ last.a = 2
    /\ hist.configured
    /\ state.output_size = PhysicalSize(1, 1)


\* C35: after a Configure event handled while the adapter exists, the
\* adapter's size is the stored surface size and the adapter's scale factor
\* is the configured one.
C35_AdapterFollowsConfigure ==
    [][ (last'.op = "configure" /\ state.window) =>
            /\ window'.exists
            /\ window'.size = state'.size
            /\ window'.scale_factor = config.scale_factor ]_vars

\* a Configure event was handled in the event loop under a configured
\* scale factor of 2 after the output changed to 400x300
C35_Witness ==
    /\ pc = "dispatch"
    /\ last.op = "configure"
    /\ state.window
    /\ config.scale_factor = <<2, 1>>
    /\ window.scale_factor = <<2, 1>>
    /\ state.size = PhysicalSize(400, 30)
    /\ window.size = PhysicalSize(400, 30)


\* C36: every Resized event forwarded to the UI framework, the one of the
\* UI set-up included, carries the stored physical size divided by the
\* configured scale factor.
C36_ResizedCarriesLogicalSize ==
    [][ \A i \in 1..Len(ui') :
            ui'[i].type = "Resized" =>
                /\ ui'[i].x = RatDiv(<<state'.size.width, 1>>, config.scale_factor)
                /\ ui'[i].y = RatDiv(<<state'.size.height, 1>>, config.scale_factor) ]_vars


\* C37: after a Mode event each dimension of OutputSize is the reported
\* value when that value is not negative, and is never a u32 of 2^31 or
\* more, whatever i32 was reported.
C37_ModeNeverWraps ==
    [][ last'.op = "mode" =>
            /\ last'.a >= 0 => state'.output_size.width = last'.a
            /\ last'.b >= 0 => state'.output_size.height = last'.b
            /\ ~u32_gt(state'.output_size.width, 2147483647)
            /\ ~u32_gt(state'.output_size.height, 2147483647) ]_vars


\* C38: an event handled while no render adapter exists (during the
\* configure wait) forwards nothing to the UI framework and leaves the
\* adapter alone: a Configure still stores the size, requests it from the
\* layer surface and commits; Enter and Motion still store the pointer's
\* position; Leave and Button change nothing at all.
C38_NoAdapterNothingForwarded ==
    [][ (~state.window /\ last'.op \in {"configure", "enter", "motion", "leave", "button"}) =>
            /\ ui' = <<>>
            /\ window' = window
            /\ hist'.requested = hist.requested
            /\ last'.op = "configure" =>
                   LET sz == configure_size(state, last'.b, last'.c)
                   IN  /\ state'.size = PhysicalSize(sz.width, sz.height)
                       /\ \E i \in 1..Len(reqs') : reqs'[i] = Req("set_size", sz.width, sz.height)
                       /\ reqs'[Len(reqs')] = Req("commit", 0, 0)
            /\ last'.op \in {"enter", "motion"} =>
                   /\ state' = set_current_pointer_position(state, last'.a, last'.b)
                   /\ reqs' = <<>>
            /\ last'.op \in {"leave", "button"} =>
                   /\ state' = state
                   /\ reqs' = <<>> ]_vars

C38_Witness ==
    /\ pc = "wait"
    /\ ~state.window
    /\ last.op = "motion"
    /\ state.current_pointer_position = LogicalPosition(<<15, 1>>, <<75, 2>>)
    /\ ui = <<>>


\* C39: the platform never creates a second window.  While the adapter is
\* alive create_window_adapter returns that adapter, as it is; once it has
\* been dropped the call returns an error value; and when the last holder
\* drops its Rc the adapter is dropped although the platform still refers
\* to it.
C39_PlatformReturnsTheOneAdapter ==
    [][ /\ hist'.windows = 1
        /\ last'.op = "create_window_adapter" =>
               /\ window' = window
               /\ window.exists =>
                      /\ last'.result = "Ok"
                      /\ last'.adapter = window
               /\ ~window.exists =>
                      /\ last'.result = "Err"
                      /\ last'.adapter = NoWindow
                      /\ last'.err = "Failed to create window adapter: window no longer exists"
        /\ (last'.op = "drop" /\ hist'.holders = 0) =>
               /\ ~window'.exists
               /\ hist'.weak >= 1 ]_vars

C39_Witness ==
    /\ pc = "platform"
    /\ last.op = "create_window_adapter"
    /\ last.result = "Err"
    /\ ~window.exists
    /\ hist.weak = 1

====
